---------------------------- MODULE Spec2Model ----------------------------
(***************************************************************************)
(* A model of the GraphRAG knowledge assistant: the graph builder          *)
(* (src/graph_builder.py), the document chunker                            *)
(* (src/document_processor.py), the ingestion and query orchestration      *)
(* (src/graphrag_core.py) and the upload endpoint (src/main.py).           *)
(*                                                                         *)
(* Text is modelled character by character: a Python str is a TLA+ string, *)
(* read with Len, SubSeq and \o.  The Neo4j store is a record of bags      *)
(* (multisets) of nodes and edges, so that a duplicated node or edge is a  *)
(* state the model can be in.                                              *)
(***************************************************************************)
EXTENDS Integers, Sequences, FiniteSets, Bags, TLC

VARIABLES
    sys,        \* GraphRAGSystem fields: initialized and the components
    neo4j,      \* the graph store: bags of nodes and edges
    weaviate,   \* the vector index: a bag of DocumentChunk objects
    response,   \* the value returned by the last request
    last,       \* the last call of build_enhanced_graph (history)
    built,      \* the documents build_enhanced_graph has stored (history)
    pc,         \* which pure function a function-level specification runs
    arg,        \* its input
    ret         \* its result

vars == <<sys, neo4j, weaviate, response, last, built, pc, arg, ret>>

(***************************************************************************)
(* Bounds of the model.                                                    *)
(***************************************************************************)
MaxMentions == 3
MaxChunks == 2
MaxWords == 5
MaxWindow == 3
MaxDocuments == 2
MaxVectors == 2

(***************************************************************************)
(* Python str operations.                                                  *)
(***************************************************************************)
Ch(s, i) == SubSeq(s, i, i)

UpperChars == "ABCDEFGHIJKLMNOPQRSTUVWXYZ"
LowerChars == "abcdefghijklmnopqrstuvwxyz"
DigitChars == "0123456789"

IsWhitespace(c) == c \in {" ", "\n", "\t"}

IsDigit(c) == \E i \in 1..Len(DigitChars) : Ch(DigitChars, i) = c

\* str.lower() of one character
LowerCh(c) ==
    IF \E i \in 1..Len(UpperChars) : Ch(UpperChars, i) = c
    THEN Ch(LowerChars, CHOOSE i \in 1..Len(UpperChars) : Ch(UpperChars, i) = c)
    ELSE c

RECURSIVE Lower(_)
\* str.lower(), one half of the string after the other
Lower(s) ==
    IF Len(s) = 0 THEN ""
    ELSE IF Len(s) = 1 THEN LowerCh(s)
    ELSE LET half == Len(s) \div 2
         IN  Lower(SubSeq(s, 1, half)) \o Lower(SubSeq(s, half + 1, Len(s)))

RECURSIVE LStrip(_)
LStrip(s) ==
    IF Len(s) > 0 /\ IsWhitespace(Ch(s, 1)) THEN LStrip(SubSeq(s, 2, Len(s)))
    ELSE s

RECURSIVE RStrip(_)
RStrip(s) ==
    IF Len(s) > 0 /\ IsWhitespace(Ch(s, Len(s))) THEN RStrip(SubSeq(s, 1, Len(s) - 1))
    ELSE s

\* str.strip()
Strip(s) == RStrip(LStrip(s))

\* str.endswith(suffix)
EndsWith(s, suffix) ==
    /\ Len(suffix) <= Len(s)
    /\ SubSeq(s, Len(s) - Len(suffix) + 1, Len(s)) = suffix

\* str.startswith(prefix)
StartsWith(s, prefix) ==
    /\ Len(prefix) <= Len(s)
    /\ SubSeq(s, 1, Len(prefix)) = prefix

\* sub in s
Contains(s, sub) ==
    \E i \in 1..(Len(s) - Len(sub) + 1) : SubSeq(s, i, i + Len(sub) - 1) = sub

\* s.find(sub): the 0-based index of the first occurrence, -1 when there is none
Find(s, sub) ==
    IF Contains(s, sub)
    THEN (CHOOSE i \in 1..(Len(s) - Len(sub) + 1) :
            /\ SubSeq(s, i, i + Len(sub) - 1) = sub
            /\ \A j \in 1..(i - 1) : SubSeq(s, j, j + Len(sub) - 1) # sub) - 1
    ELSE -1

\* s[a:b] for 0 <= a, 0 <= b
Slice(s, a, b) ==
    LET hi == IF b > Len(s) THEN Len(s) ELSE b
    IN  IF a >= hi THEN "" ELSE SubSeq(s, a + 1, hi)

RECURSIVE Remove(_, _)
\* s.replace(old, ""), old not empty
Remove(s, old) ==
    IF Len(s) < Len(old) THEN s
    ELSE IF StartsWith(s, old) THEN Remove(SubSeq(s, Len(old) + 1, Len(s)), old)
    ELSE Ch(s, 1) \o Remove(SubSeq(s, 2, Len(s)), old)

\* str.split(): the maximal runs of characters that are not whitespace
Split(s) ==
    LET starts == {i \in 1..Len(s) :
                      /\ ~IsWhitespace(Ch(s, i))
                      /\ (i = 1 \/ IsWhitespace(Ch(s, i - 1)))}
        End(i) == CHOOSE j \in i..Len(s) :
                      /\ \A k \in i..j : ~IsWhitespace(Ch(s, k))
                      /\ (j = Len(s) \/ IsWhitespace(Ch(s, j + 1)))
        Start(n) == CHOOSE i \in starts : Cardinality({k \in starts : k < i}) = n - 1
    IN  [n \in 1..Cardinality(starts) |-> SubSeq(s, Start(n), End(Start(n)))]

RECURSIVE Join(_, _)
\* sep.join(words)
Join(words, sep) ==
    IF Len(words) = 0 THEN ""
    ELSE IF Len(words) = 1 THEN words[1]
    ELSE words[1] \o sep \o Join(Tail(words), sep)

\* words[a:b] of a list, for 0 <= a, 0 <= b
ListSlice(q, a, b) ==
    LET hi == IF b > Len(q) THEN Len(q) ELSE b
    IN  IF a >= hi THEN <<>> ELSE SubSeq(q, a + 1, hi)

Min(a, b) == IF a <= b THEN a ELSE b

(***************************************************************************)
(* Sequence helpers.                                                       *)
(***************************************************************************)
Range(q) == {q[i] : i \in 1..Len(q)}

RECURSIVE FirstSeen(_)
\* The distinct elements of q in the order of their first occurrence (the
\* key order of a dict or Counter filled from q)
FirstSeen(q) ==
    IF Len(q) = 0 THEN <<>>
    ELSE LET front == FirstSeen(SubSeq(q, 1, Len(q) - 1))
             x == q[Len(q)]
         IN  IF x \in Range(front) THEN front ELSE Append(front, x)

(***************************************************************************)
(* Entity normalization (AdvancedGraphBuilder).                            *)
(***************************************************************************)
EntityLabels == <<"PERSON", "ORG", "GPE", "MONEY", "PRODUCT", "EVENT", "DATE">>

OrgSuffixes ==
    <<"Inc.", "Corp.", "Corporation", "Ltd.", "LLC", "Co.", "Company",
      "GmbH", "AG", "S.A.", "Pvt. Ltd.">>

PersonTitles == <<"Dr.", "Mr.", "Ms.", "Mrs.", "Prof.", "CEO", "CTO", "CFO">>

RECURSIVE StripSuffixes(_, _)
\* for suffix in suffixes: if name.endswith(suffix): name = name[:len(suffix)].strip()
StripSuffixes(name, suffixes) ==
    IF Len(suffixes) = 0 THEN name
    ELSE LET suffix == Head(suffixes)
             next == IF EndsWith(name, suffix)
                     THEN Strip(Slice(name, 0, Len(suffix)))
                     ELSE name
         IN  StripSuffixes(next, Tail(suffixes))

_normalize_organization(org_name) ==
    Lower(StripSuffixes(Strip(org_name), OrgSuffixes))

RECURSIVE StripTitles(_, _)
\* for title in titles: name = name.replace(title, "").strip()
StripTitles(name, titles) ==
    IF Len(titles) = 0 THEN name
    ELSE StripTitles(Strip(Remove(name, Head(titles))), Tail(titles))

_normalize_person(person_name) ==
    Lower(StripTitles(Strip(person_name), PersonTitles))

_normalize_location(location) == Lower(Strip(location))

\* re.findall(r"[\d,]_", money): the 1-based starts of the matches
MoneyMatches(money) ==
    {i \in 1..(Len(money) - 1) :
        /\ IsDigit(Ch(money, i)) \/ Ch(money, i) = ","
        /\ Ch(money, i + 1) = "_"}

_normalize_money(money) ==
    IF MoneyMatches(money) # {}
    THEN LET i == CHOOSE k \in MoneyMatches(money) :
                     \A j \in MoneyMatches(money) : k <= j
         IN  Remove(SubSeq(money, i, i + 1), ",")
    ELSE Lower(Strip(money))

_default_normalize(text) == Lower(Strip(text))

\* self.normalization_rules.get(entity.label, self._default_normalize)(text)
Normalizer(label, text) ==
    CASE label = "ORG" -> _normalize_organization(text)
      [] label = "PERSON" -> _normalize_person(text)
      [] label = "GPE" -> _normalize_location(text)
      [] label = "MONEY" -> _normalize_money(text)
      [] OTHER -> _default_normalize(text)

\* EntityMention(text, label, chunk_id, confidence=1.0, normalized_form=None);
\* start_char and end_char are stored and never read
EntityMention(text, label, chunk_id) ==
    [text |-> text, label |-> label, chunk_id |-> chunk_id,
     confidence |-> "1.0", normalized_form |-> "None"]

\* key = f"{entity.label}:{normalized_form}"
GroupKey(label, normalized_form) == label \o ":" \o normalized_form

\* The number of occurrences of text among texts
CountOf(texts, text) == Cardinality({i \in 1..Len(texts) : texts[i] = text})

\* most_common with ties resolved to the text seen last
MostCommonLast(texts) ==
    LET keys == FirstSeen(texts)
        i == CHOOSE k \in 1..Len(keys) :
                /\ \A j \in 1..Len(keys) :
                      CountOf(texts, keys[j]) <= CountOf(texts, keys[k])
                /\ \A j \in (k + 1)..Len(keys) :
                      CountOf(texts, keys[j]) < CountOf(texts, keys[k])
    IN  keys[i]

\* Counter(texts).most_common(1)[0][0]: the Counter keeps its keys in the
\* order of their first occurrence and the maximum taken over them is the
\* first key with the largest count
MostCommon(texts) ==
    LET keys == FirstSeen(texts)
        i == CHOOSE k \in 1..Len(keys) :
                /\ \A j \in 1..Len(keys) :
                      CountOf(texts, keys[j]) <= CountOf(texts, keys[k])
                /\ \A j \in 1..(k - 1) :
                      CountOf(texts, keys[j]) < CountOf(texts, keys[k])
    IN  keys[i]

\* The first loop of _normalize_entities: every mention gets its
\* normalized_form
WithNormalizedForm(entities) ==
    [i \in 1..Len(entities) |->
        [entities[i] EXCEPT !.normalized_form = Normalizer(entities[i].label, entities[i].text)]]

\* _normalize_entities: the dict of canonical entities, as the sequence of its
\* items in insertion order (the order of the first mention of each key)
_normalize_entities(entities) ==
    LET Texts(mentions) == [i \in 1..Len(mentions) |-> mentions[i].text]
        \* The second loop: the canonical entity of the mentions of one key
        Canonical(key, mentions) ==
            [key |-> key,
             canonical_name |-> MostCommon(Texts(mentions)),
             normalized_name |-> mentions[1].normalized_form,
             entity_type |-> mentions[1].label,
             mentions |-> mentions,
             mention_count |-> Len(mentions)]
        Grouped(normalized, keys) ==
            [k \in 1..Len(keys) |->
                Canonical(keys[k],
                          SelectSeq(normalized, LAMBDA m : GroupKey(m.label, m.normalized_form) = keys[k]))]
        Keyed(normalized) ==
            Grouped(normalized,
                    FirstSeen([i \in 1..Len(normalized) |->
                                  GroupKey(normalized[i].label,
                                           normalized[i].normalized_form)]))
    IN  Keyed(WithNormalizedForm(entities))

(***************************************************************************)
(* Mention extraction (AdvancedGraphBuilder._extract_all_entities).        *)
(***************************************************************************)
\* The chunk texts of the model's corpus
AliceChunk == "Alice founded Acme Inc. in 2010"
HiredChunk == "Apple hired Bob Smith"
AteChunk == "Bob Smith ate an Apple"
WorksChunk == "bob smith works for Acme Inc."
ToldChunk == "Alice told Bob Smith that Alice left"
CeoChunk == "Alice is the CEO of Acme Corp."
PlainChunk == "nothing to see here"
MetChunk == "Bob Smith met Alice"
UnknownChunk == "Unknown founded Acme Inc."

\* The texts of the model's documents
FoundedText == "Alice founded Acme Inc. and later Bob Smith joined her company there"
WorksText == "Alice said bob smith left but Alice still works for Acme Inc."
ShortText == "only a few words here"

ChunkTexts ==
    {AliceChunk, HiredChunk, AteChunk, WorksChunk, ToldChunk, CeoChunk, PlainChunk}

Ent(text, label) == [text |-> text, label_ |-> label]

\* doc.ents of self.nlp(text): the answer of the external NER model, a fixed
\* function of the text it is given
Nlp(text) ==
    CASE text = AliceChunk -> <<Ent("Alice", "PERSON"), Ent("Acme Inc.", "ORG")>>
      [] text = HiredChunk -> <<Ent("Apple", "ORG"), Ent("Bob Smith", "PERSON")>>
      [] text = AteChunk -> <<Ent("Bob Smith", "PERSON"), Ent("Apple", "PRODUCT")>>
      [] text = WorksChunk -> <<Ent("bob smith", "PERSON"), Ent("Acme Inc.", "ORG")>>
      [] text = ToldChunk ->
            <<Ent("Alice", "PERSON"), Ent("Bob Smith", "PERSON"), Ent("Alice", "PERSON")>>
      [] text = CeoChunk ->
            <<Ent("Alice", "PERSON"), Ent("CEO", "NORP"), Ent("Acme Corp.", "ORG")>>
      [] text = MetChunk -> <<Ent("Bob Smith", "PERSON"), Ent("Alice", "PERSON")>>
      [] text = UnknownChunk -> <<Ent("Unknown", "PERSON"), Ent("Acme Inc.", "ORG")>>
      [] text = FoundedText ->
            <<Ent("Alice", "PERSON"), Ent("Acme Inc.", "ORG"), Ent("Bob Smith", "PERSON")>>
      [] text = WorksText ->
            <<Ent("Alice", "PERSON"), Ent("bob smith", "PERSON"),
              Ent("Alice", "PERSON"), Ent("Acme Inc.", "ORG")>>
      [] OTHER -> <<>>

\* chunk_id = f"chunk_{i}"
LocalChunkId(i) == "chunk_" \o ToString(i)

\* The chunk objects ingest_document hands to the graph builder: chunks[i]
\* (1-based here) is the chunk of index i - 1
ChunkObjects(texts) ==
    [i \in 1..Len(texts) |->
        [content |-> texts[i], index |-> i - 1, chunk_id |-> LocalChunkId(i - 1)]]

\* The mentions of one chunk: the entities of the wanted labels, stripped
ChunkMentions(chunk, i) ==
    LET ents == Nlp(Slice(chunk.content, 0, 2000))
        wanted == SelectSeq(ents, LAMBDA e : e.label_ \in Range(EntityLabels))
    IN  [k \in 1..Len(wanted) |->
            EntityMention(Strip(wanted[k].text), wanted[k].label_, LocalChunkId(i))]

RECURSIVE _extract_all_entities(_)
_extract_all_entities(chunks) ==
    IF Len(chunks) = 0 THEN <<>>
    ELSE _extract_all_entities(SubSeq(chunks, 1, Len(chunks) - 1))
            \o ChunkMentions(chunks[Len(chunks)], Len(chunks) - 1)

(***************************************************************************)
(* Relationship extraction (AdvancedGraphBuilder._extract_relationships).  *)
(***************************************************************************)
\* relationship_keywords, flattened in the order the two loops visit it
RelationshipKeywords ==
    <<<<"WORKS_FOR", "works for">>, <<"WORKS_FOR", "works at">>,
      <<"WORKS_FOR", "employed by">>, <<"WORKS_FOR", "employee of">>,
      <<"FOUNDED", "founded">>, <<"FOUNDED", "created">>,
      <<"FOUNDED", "started">>, <<"FOUNDED", "established">>,
      <<"LEADS", "CEO of">>, <<"LEADS", "CTO of">>, <<"LEADS", "CFO of">>,
      <<"LEADS", "leads">>, <<"LEADS", "director of">>, <<"LEADS", "president of">>,
      <<"PARTNERS_WITH", "partnership with">>, <<"PARTNERS_WITH", "partnered with">>,
      <<"PARTNERS_WITH", "collaboration with">>,
      <<"RAISED_FUNDING", "raised funding">>, <<"RAISED_FUNDING", "received investment">>,
      <<"RAISED_FUNDING", "funding round">>,
      <<"CO_FOUNDED", "co-founded">>, <<"CO_FOUNDED", "founded together">>,
      <<"CO_FOUNDED", "co-founded with">>>>

EntityRelationship(source, target, relation_type, context, confidence, chunk_id) ==
    [source_entity |-> source, target_entity |-> target,
     relation_type |-> relation_type, context |-> context,
     confidence |-> confidence, chunk_id |-> chunk_id]

RECURSIVE Concat(_)
\* The concatenation of a sequence of sequences
Concat(qs) ==
    IF Len(qs) = 0 THEN <<>>
    ELSE Concat(SubSeq(qs, 1, Len(qs) - 1)) \o qs[Len(qs)]

\* chunk_entities[chunk_id]: one entry per mention of the chunk, entity by
\* entity in the order of the dict, mention by mention
ChunkEntities(entities, chunk_id) ==
    Concat([k \in 1..Len(entities) |->
        LET here == SelectSeq(entities[k].mentions, LAMBDA m : m.chunk_id = chunk_id)
        IN  [j \in 1..Len(here) |->
                [key |-> entities[k].key, mention |-> here[j],
                 canonical |-> entities[k].canonical_name,
                 type |-> entities[k].entity_type]]])

\* for i, a in enumerate(ents): for b in ents[i + 1:]: one relationship
PairRelationships(ents, relation_type, context, confidence, chunk_id) ==
    Concat([i \in 1..Len(ents) |->
        [j \in 1..(Len(ents) - i) |->
            EntityRelationship(ents[i].canonical, ents[i + j].canonical,
                               relation_type, context, confidence, chunk_id)]])

\* The relationships one keyword adds for one chunk
KeywordRelationships(content, chunk_ents, relation_type, keyword, chunk_id) ==
    LET content_lower == Lower(content)
    IN  IF ~Contains(content_lower, keyword) THEN <<>>
        ELSE LET keyword_pos == Find(content_lower, keyword)
                 context_start == IF keyword_pos > 100 THEN keyword_pos - 100 ELSE 0
                 context_end == Min(Len(content), keyword_pos + Len(keyword) + 100)
                 context == Slice(content, context_start, context_end)
                 context_lower == Lower(context)
                 context_entities ==
                     SelectSeq(chunk_ents,
                               LAMBDA e : Contains(context_lower, Lower(e.canonical)))
             IN  IF Len(context_entities) >= 2
                 THEN PairRelationships(context_entities, relation_type,
                                        Strip(context), "0.7", chunk_id)
                 ELSE <<>>

\* The co-occurrence relationships of one chunk
CoMentionRelationships(content, chunk_ents, chunk_id) ==
    IF Len(chunk_ents) > 1
    THEN PairRelationships(chunk_ents, "CO_MENTIONED",
                           IF Len(content) > 200
                           THEN Slice(content, 0, 200) \o "..." ELSE content,
                           "0.3", chunk_id)
    ELSE <<>>

\* The relationships of one chunk: the keyword pass, then the co-occurrence
\* pass
ChunkRelationships(chunk, i, entities) ==
    LET chunk_id == LocalChunkId(i)
        chunk_ents == ChunkEntities(entities, chunk_id)
    IN  Concat([k \in 1..Len(RelationshipKeywords) |->
                KeywordRelationships(chunk.content, chunk_ents,
                                     RelationshipKeywords[k][1],
                                     RelationshipKeywords[k][2], chunk_id)])
        \o CoMentionRelationships(chunk.content, chunk_ents, chunk_id)

\* The list `relationships` before deduplication
GeneratedRelationships(chunks, entities) ==
    Concat([i \in 1..Len(chunks) |-> ChunkRelationships(chunks[i], i - 1, entities)])

\* key = f"{rel.source_entity}|{rel.relation_type}|{rel.target_entity}"
RelationshipKey(source, relation_type, target) ==
    source \o "|" \o relation_type \o "|" \o target

RECURSIVE DeduplicateFrom(_, _, _)
DeduplicateFrom(relationships, seen, unique) ==
    IF Len(relationships) = 0 THEN unique
    ELSE LET rel == Head(relationships)
             key == RelationshipKey(rel.source_entity, rel.relation_type, rel.target_entity)
             reverse_key ==
                 RelationshipKey(rel.target_entity, rel.relation_type, rel.source_entity)
         IN  IF key \notin seen /\ reverse_key \notin seen
             THEN DeduplicateFrom(Tail(relationships), seen \cup {key}, Append(unique, rel))
             ELSE DeduplicateFrom(Tail(relationships), seen, unique)

RECURSIVE DeduplicateOneWayFrom(_, _, _)
DeduplicateOneWayFrom(relationships, seen, unique) ==
    IF Len(relationships) = 0 THEN unique
    ELSE LET rel == Head(relationships)
             key == RelationshipKey(rel.source_entity, rel.relation_type, rel.target_entity)
         IN  IF key \notin seen
             THEN DeduplicateOneWayFrom(Tail(relationships), seen \cup {key},
                                        Append(unique, rel))
             ELSE DeduplicateOneWayFrom(Tail(relationships), seen, unique)

\* Deduplication that forgets the reverse key
DeduplicateOneWay(relationships) == DeduplicateOneWayFrom(relationships, {}, <<>>)

RECURSIVE DeduplicatePairsFrom(_, _, _)
DeduplicatePairsFrom(relationships, seen, unique) ==
    IF Len(relationships) = 0 THEN unique
    ELSE LET rel == Head(relationships)
             pair == {rel.source_entity, rel.target_entity}
         IN  IF pair \notin seen
             THEN DeduplicatePairsFrom(Tail(relationships), seen \cup {pair},
                                       Append(unique, rel))
             ELSE DeduplicatePairsFrom(Tail(relationships), seen, unique)

\* Deduplication that keys a relationship by its entity pair alone
DeduplicatePairs(relationships) == DeduplicatePairsFrom(relationships, {}, <<>>)

\* Deduplication that keeps the last occurrence of a pair and type
DeduplicateLast(relationships) ==
    LET kept == SelectSeq([n \in 1..Len(relationships) |-> n],
                          LAMBDA n :
                              \A m \in (n + 1)..Len(relationships) :
                                  \/ relationships[m].relation_type
                                        # relationships[n].relation_type
                                  \/ {relationships[m].source_entity,
                                      relationships[m].target_entity}
                                        # {relationships[n].source_entity,
                                           relationships[n].target_entity})
    IN  [k \in 1..Len(kept) |-> relationships[kept[k]]]

\* The loop over `relationships` that fills unique_relationships
Deduplicate(relationships) == DeduplicateFrom(relationships, {}, <<>>)

_extract_relationships(chunks, entities) ==
    Deduplicate(GeneratedRelationships(chunks, entities))

(***************************************************************************)
(* Chunking (AdvancedDocumentProcessor).                                   *)
(***************************************************************************)
\* list(range(0, n, step)) for step > 0
RangeList(n, step) ==
    [k \in 1..((n + step - 1) \div step) |-> (k - 1) * step]

\* _chunk_by_fixed_size, for overlap < chunk_size
_chunk_by_fixed_size(content, chunk_size, overlap) ==
    LET words == Split(content)
        starts == RangeList(Len(words), chunk_size - overlap)
        windows == [k \in 1..Len(starts) |->
                        Join(ListSlice(words, starts[k], starts[k] + chunk_size), " ")]
    IN  SelectSeq(windows, LAMBDA chunk : Strip(chunk) # "")

(***************************************************************************)
(* Function-level specification of _normalize_entities.                    *)
(***************************************************************************)
MentionPool ==
    {EntityMention("Bob Smith", "PERSON", "chunk_0"),
     EntityMention("bob smith", "PERSON", "chunk_0"),
     EntityMention("Dr. Bob Smith", "PERSON", "chunk_1"),
     EntityMention("Acme Inc.", "ORG", "chunk_0"),
     EntityMention("Acme", "ORG", "chunk_1"),
     EntityMention("Acme", "PRODUCT", "chunk_0"),
     EntityMention("$1,5_0", "MONEY", "chunk_0"),
     EntityMention(" Paris", "GPE", "chunk_1")}

BoundedSeq(S, n) == UNION {[1..k -> S] : k \in 0..n}

InitialSys ==
    [initialized |-> FALSE, nlp |-> "None", neo4j_driver |-> FALSE,
     graph_builder |-> FALSE, weaviate_client |-> FALSE, embeddings_model |-> FALSE]

EmptyGraph ==
    [documents |-> EmptyBag, chunks |-> EmptyBag, entities |-> EmptyBag,
     topics |-> EmptyBag, contains |-> EmptyBag, mentions |-> EmptyBag,
     related |-> EmptyBag, has_topic |-> EmptyBag, includes |-> EmptyBag]

NoResponse == [op |-> "none", status |-> "none"]
NoOperation == [op |-> "none"]

\* The system as constructed, untouched by the function-level specifications
SystemIdle ==
    /\ sys = InitialSys
    /\ neo4j = EmptyGraph
    /\ weaviate = EmptyBag
    /\ response = NoResponse
    /\ last = NoOperation
    /\ built = {}

SystemVars == <<sys, neo4j, weaviate, response, last, built>>

NormalizeInit ==
    /\ SystemIdle
    /\ pc = "normalize"
    /\ arg \in BoundedSeq(MentionPool, MaxMentions)
    /\ ret = <<>>

NormalizeCall ==
    /\ pc = "normalize"
    /\ pc' = "normalized"
    /\ ret' = _normalize_entities(arg)
    /\ UNCHANGED <<arg, SystemVars>>

SpecNormalize == NormalizeInit /\ [][NormalizeCall]_vars

\* The keys of the claim for the mentions of the input: type, ":" and
\* normalized form
InputKeys ==
    [i \in 1..Len(arg) |-> GroupKey(arg[i].label, Normalizer(arg[i].label, arg[i].text))]

\* C5: _normalize_entities yields exactly one canonical entity per distinct
\* key type + ":" + normalized form (groups of size 1 included), whose
\* mention_count is the size of the group and whose canonical name is the raw
\* text occurring most often in the group, ties going to the text seen first.
C5_NormalizationDeterminism ==
    pc = "normalized" =>
        LET keys == InputKeys
            Group(key) == {i \in 1..Len(arg) : keys[i] = key}
            TextCount(key, text) == Cardinality({i \in Group(key) : arg[i].text = text})
        IN  /\ Len(ret) = Cardinality(Range(keys))
            /\ {ret[k].key : k \in 1..Len(ret)} = Range(keys)
            /\ \A k \in 1..Len(ret) :
                  LET key == ret[k].key
                      name == ret[k].canonical_name
                  IN  /\ ret[k].mention_count = Cardinality(Group(key))
                      /\ \E i \in Group(key) : arg[i].text = name
                      /\ \A i \in Group(key) :
                            /\ TextCount(key, arg[i].text) <= TextCount(key, name)
                            /\ TextCount(key, arg[i].text) = TextCount(key, name) =>
                                  \E j \in Group(key) : j <= i /\ arg[j].text = name

\* C5 witness: a group of two texts that tie, next to a group of size 1
C5_Witness ==
    /\ pc = "normalized"
    /\ Len(ret) = 2
    /\ \E k \in 1..2 :
          /\ ret[k].mention_count = 2
          /\ Cardinality({ret[k].mentions[i].text : i \in 1..2}) = 2
    /\ \E k \in 1..2 : ret[k].mention_count = 1

(***************************************************************************)
(* Function-level specification of _normalize_organization.                *)
(***************************************************************************)
\* Organization names of several lengths, none of them ending with a suffix
\* of the table, some with spaces around them
OrganizationNames ==
    {"Ab", "IBM", "Acme", "Hooli", "Globex", "Initech", " Umbrella", "Wayne Tech ",
     "Stark Industries"}

\* The name of an organization with the legal suffix, or without one
OrganizationName(name, suffix) ==
    IF suffix = "" THEN name ELSE name \o " " \o suffix

OrganizationInit ==
    /\ SystemIdle
    /\ pc = "organization"
    /\ arg \in [name : OrganizationNames,
                suffix : {OrgSuffixes[k] : k \in 1..10} \cup {""}]
    /\ ret = <<>>

OrganizationCall ==
    /\ pc = "organization"
    /\ pc' = "normalized"
    /\ ret' = _normalize_organization(OrganizationName(arg.name, arg.suffix))
    /\ UNCHANGED <<arg, SystemVars>>

SpecOrganization == OrganizationInit /\ [][OrganizationCall]_vars

\* C19: the normalized form of N + " " + S, for a name N without suffix and a
\* legal suffix S of the table, is N trimmed and lower-cased, whatever the
\* length of N, and a name without suffix normalizes to its trimmed
\* lower-case form.
C19_OrganizationNormalization ==
    pc = "normalized" => ret = Lower(Strip(arg.name))

(***************************************************************************)
(* Function-level specification of steps 1 to 3 of build_enhanced_graph:   *)
(* extraction, normalization and relationship extraction.                  *)
(***************************************************************************)
ChunkLists == BoundedSeq(ChunkTexts, MaxChunks) \ {<<>>}

RelationsInit ==
    /\ SystemIdle
    /\ pc = "extract"
    /\ arg \in ChunkLists
    /\ ret = <<>>

RelationsCall ==
    /\ pc = "extract"
    /\ pc' = "extracted"
    /\ LET Related(chunks, entities) ==
               [entities |-> entities,
                generated |-> GeneratedRelationships(chunks, entities),
                relationships |-> _extract_relationships(chunks, entities)]
       IN  ret' = Related(ChunkObjects(arg),
                          _normalize_entities(_extract_all_entities(ChunkObjects(arg))))
    /\ UNCHANGED <<arg, SystemVars>>

SpecRelations == RelationsInit /\ [][RelationsCall]_vars

\* The relationships of the result between the two entities, in either
\* direction, with the type
Between(relationships, a, b, relation_type) ==
    {k \in 1..Len(relationships) :
        /\ relationships[k].relation_type = relation_type
        /\ {relationships[k].source_entity, relationships[k].target_entity} = {a, b}}

\* C6: whenever the extractor generates (A,T,B) and/or (B,T,A), any number of
\* times and in any order, its result holds exactly one relationship of type
\* T for the unordered pair {A,B}.
C6_DedupSymmetry ==
    pc = "extracted" =>
        \A g \in Range(ret.generated) :
            Cardinality(Between(ret.relationships, g.source_entity,
                                g.target_entity, g.relation_type)) = 1

\* C6 witness: both directions of one pair and type were generated
C6_Witness ==
    /\ pc = "extracted"
    /\ \E g, h \in Range(ret.generated) :
          /\ g.source_entity # g.target_entity
          /\ h.source_entity = g.target_entity
          /\ h.target_entity = g.source_entity
          /\ h.relation_type = g.relation_type

\* C18: no relationship of the result has one canonical entity as its source
\* and its target, also when a chunk mentions the entity several times: a
\* relationship between equal names is one between two canonical entities of
\* that name mentioned in its chunk.
C18_DistinctEntitiesRelated ==
    pc = "extracted" =>
        \A r \in Range(ret.relationships) :
            r.source_entity = r.target_entity =>
                \E j, k \in 1..Len(ret.entities) :
                    /\ j # k
                    /\ \A i \in {j, k} :
                          /\ ret.entities[i].canonical_name = r.source_entity
                          /\ \E m \in Range(ret.entities[i].mentions) :
                                m.chunk_id = r.chunk_id

\* C20: whenever the text of a chunk contains a trigger phrase of the table,
\* in any letter case, every two distinct entities of the chunk whose
\* canonical names lie within 100 characters of the phrase are related by a
\* relationship of the triggered type with confidence 0.7.
C20_KeywordTriggers ==
    pc = "extracted" =>
        \A i \in 1..Len(arg), k \in 1..Len(RelationshipKeywords) :
            LET content_lower == Lower(arg[i])
                phrase == Lower(RelationshipKeywords[k][2])
                pos == Find(content_lower, phrase)
                window == Slice(content_lower,
                                IF pos > 100 THEN pos - 100 ELSE 0,
                                Min(Len(content_lower), pos + Len(phrase) + 100))
                near == {e \in 1..Len(ret.entities) :
                            /\ \E m \in Range(ret.entities[e].mentions) :
                                  m.chunk_id = LocalChunkId(i - 1)
                            /\ Contains(window, Lower(ret.entities[e].canonical_name))}
            IN  Contains(content_lower, phrase) =>
                    \A a, b \in near :
                        a # b =>
                            \E r \in Range(ret.relationships) :
                                /\ r.relation_type = RelationshipKeywords[k][1]
                                /\ r.confidence = "0.7"
                                /\ {r.source_entity, r.target_entity} =
                                       {ret.entities[a].canonical_name,
                                        ret.entities[b].canonical_name}

\* The document of the input mentions the two entities of the scenario under
\* no other surface form than "Alice" and "Acme Inc."
ScenarioSurfaceForms ==
    LET mentions == _extract_all_entities(ChunkObjects(arg))
    IN  \A i \in 1..Len(mentions) :
            LET key == GroupKey(mentions[i].label,
                                Normalizer(mentions[i].label, mentions[i].text))
            IN  /\ key = "PERSON:alice" => mentions[i].text = "Alice"
                /\ key = "ORG:acme" => mentions[i].text = "Acme Inc."

\* C10: a chunk "Alice founded Acme Inc. in 2010" with the mentions Alice
\* (PERSON) and Acme Inc. (ORG) yields canonical entities with the keys
\* PERSON:alice and ORG:acme, a FOUNDED relationship between the two with
\* confidence 0.7 and also a CO_MENTIONED relationship between them with
\* confidence 0.3 (in a document that names the two entities in no other
\* way).
C10_AliceFoundedAcme ==
    (pc = "extracted" /\ AliceChunk \in Range(arg) /\ ScenarioSurfaceForms) =>
        /\ \E k \in 1..Len(ret.entities) :
              /\ ret.entities[k].key = "PERSON:alice"
              /\ ret.entities[k].canonical_name = "Alice"
        /\ \E k \in 1..Len(ret.entities) :
              /\ ret.entities[k].key = "ORG:acme"
              /\ ret.entities[k].canonical_name = "Acme Inc."
        /\ \E k \in Between(ret.relationships, "Alice", "Acme Inc.", "FOUNDED") :
              ret.relationships[k].confidence = "0.7"
        /\ \E k \in Between(ret.relationships, "Alice", "Acme Inc.", "CO_MENTIONED") :
              ret.relationships[k].confidence = "0.3"

\* C10 witness: the chunk of the scenario, alone, has been processed
C10_Witness ==
    /\ pc = "extracted"
    /\ arg = <<AliceChunk>>
    /\ Len(ret.relationships) = 2

(***************************************************************************)
(* Function-level specification of the fixed-size chunker.                 *)
(***************************************************************************)
ChunkerWords == {"a", "b"}

ChunkerInit ==
    /\ SystemIdle
    /\ pc = "chunk"
    /\ \E words \in BoundedSeq(ChunkerWords, MaxWords), W \in 1..MaxWindow :
          \E O \in 0..(W - 1) :
              arg = [content |-> Join(words, " "), chunk_size |-> W, overlap |-> O]
    /\ ret = <<>>

ChunkerCall ==
    /\ pc = "chunk"
    /\ pc' = "chunked"
    /\ ret' = _chunk_by_fixed_size(arg.content, arg.chunk_size, arg.overlap)
    /\ UNCHANGED <<arg, SystemVars>>

SpecChunker == ChunkerInit /\ [][ChunkerCall]_vars

\* The last n words and the first n words of a chunk
LastWords(chunk, n) ==
    LET words == Split(chunk)
    IN  IF n >= Len(words) THEN words ELSE SubSeq(words, Len(words) - n + 1, Len(words))

FirstWords(chunk, n) == ListSlice(Split(chunk), 0, n)

\* C7: every chunk of the fixed chunker has at most W words, and the last O
\* words of every chunk but the last one are exactly the first O words of
\* the next chunk.
C7_FixedOverlap ==
    pc = "chunked" =>
        /\ \A n \in 1..Len(ret) : Len(Split(ret[n])) <= arg.chunk_size
        /\ \A n \in 1..(Len(ret) - 1) :
              LastWords(ret[n], arg.overlap) = FirstWords(ret[n + 1], arg.overlap)

(***************************************************************************)
(* The graph store.  A node is the map of its properties; an edge is the   *)
(* map of its own properties together with `source` and `target`, the      *)
(* identifying properties of its end nodes.  Timestamps (processed_at,     *)
(* created_at, last_updated) are left out.                                 *)
(***************************************************************************)
RECURSIVE SumCopies(_, _)
\* The number of copies in the bag of the elements of S
SumCopies(bag, S) ==
    IF S = {} THEN 0
    ELSE LET x == CHOOSE y \in S : TRUE
         IN  CopiesIn(x, bag) + SumCopies(bag, S \ {x})

BagAdd(bag, x) == bag (+) SetToBag({x})

\* The node or edge has the properties, with these values
Has(x, props) == \A k \in DOMAIN props : k \in DOMAIN x /\ x[k] = props[k]

\* The node or edge with the properties set
SetProps(x, props) == props @@ x

\* The properties of the node among the given ones
Ref(x, keys) == [k \in DOMAIN x \cap keys |-> x[k]]

\* MERGE (x {props}) SET x.k = set[k], ...: the elements that have the
\* properties are updated; when there is none, one is created with them and
\* then updated
Merge(bag, props, set) ==
    LET matched == {x \in DOMAIN bag : Has(x, props)}
        others == DOMAIN bag \ matched
    IN  IF matched = {} THEN BagAdd(bag, SetProps(props, set))
        ELSE IF \A x \in matched : SetProps(x, set) = x THEN bag
        ELSE [x \in others \cup {SetProps(y, set) : y \in matched} |->
                (IF x \in others THEN bag[x] ELSE 0)
                    + SumCopies(bag, {y \in matched : SetProps(y, set) = x})]

RECURSIVE MergePairs(_, _, _, _)
\* MERGE (a)-[r {props}]->(b) SET ... for every pair (a, b) of end nodes
MergePairs(bag, pairs, props, set) ==
    IF pairs = {} THEN bag
    ELSE LET ends == CHOOSE pair \in pairs : TRUE
         IN  MergePairs(Merge(bag, [source |-> ends[1], target |-> ends[2]] @@ props, set),
                        pairs \ {ends}, props, set)

\* MATCH (a {...}) MATCH (b {...}) MERGE (a)-[r {props}]->(b) SET ...: for
\* every pair of matched end nodes
MergeEdges(bag, sources, targets, props, set) ==
    MergePairs(bag, sources \X targets, props, set)

DocumentRefs(g, props) ==
    {Ref(d, {"hash", "name"}) : d \in {x \in BagToSet(g.documents) : Has(x, props)}}

ChunkRefs(g, props) ==
    {Ref(c, {"id"}) : c \in {x \in BagToSet(g.chunks) : Has(x, props)}}

EntityRefs(g, props) ==
    {Ref(e, {"canonical_name", "name", "type"}) :
        e \in {x \in BagToSet(g.entities) : Has(x, props)}}

TopicRefs(g, props) ==
    {Ref(t, {"name", "type"}) : t \in {x \in BagToSet(g.topics) : Has(x, props)}}

\* MERGE (d:Document {hash: $hash}) SET d.title = ..., d.chunk_count = ...
MergeDocument(g, hash, title, file_type, word_count, chunk_count) ==
    [g EXCEPT !.documents =
        Merge(@, [hash |-> hash],
              [title |-> title, file_type |-> file_type, word_count |-> word_count,
               chunk_count |-> chunk_count])]

\* MATCH (d:Document {hash: $doc_hash}) MERGE (c:Chunk {id: $chunk_id})
\* SET c.content = ... MERGE (d)-[:CONTAINS {sequence: $index}]->(c)
MergeChunk(g, doc_hash, chunk_id, content, index, word_count) ==
    IF DocumentRefs(g, [hash |-> doc_hash]) = {} THEN g
    ELSE [g EXCEPT
            !.chunks =
                Merge(@, [id |-> chunk_id],
                      [content |-> content, index |-> index, word_count |-> word_count]),
            !.contains =
                MergeEdges(@, DocumentRefs(g, [hash |-> doc_hash]), {[id |-> chunk_id]},
                           [sequence |-> index], <<>>)]

\* An upsert that adds the mentions to the stored count
MergeEntityAdding(g, canonical_name, entity_type, normalized_name, mention_count, surface_forms) ==
    LET stored == {e \in DOMAIN g.entities :
                      /\ Has(e, [canonical_name |-> canonical_name, type |-> entity_type])
                      /\ "mention_count" \in DOMAIN e}
        before == IF stored = {} THEN 0 ELSE (CHOOSE e \in stored : TRUE).mention_count
    IN  [g EXCEPT !.entities =
            Merge(@, [canonical_name |-> canonical_name, type |-> entity_type],
                  [normalized_name |-> normalized_name,
                   mention_count |-> before + mention_count,
                   surface_forms |-> surface_forms])]

\* MERGE (e:Entity {canonical_name: $canonical_name, type: $entity_type})
\* SET e.normalized_name = ..., e.mention_count = ..., e.surface_forms = ...
MergeEntity(g, canonical_name, entity_type, normalized_name, mention_count, surface_forms) ==
    [g EXCEPT !.entities =
        Merge(@, [canonical_name |-> canonical_name, type |-> entity_type],
              [normalized_name |-> normalized_name, mention_count |-> mention_count,
               surface_forms |-> surface_forms])]

\* MATCH (e:Entity {canonical_name, type}) MATCH (c:Chunk {id})
\* MERGE (c)-[r:MENTIONS]->(e) SET r.surface_form = ..., r.confidence = ...
MergeMention(g, canonical_name, entity_type, chunk_id, surface_form, confidence) ==
    [g EXCEPT !.mentions =
        MergeEdges(@, ChunkRefs(g, [id |-> chunk_id]),
                   EntityRefs(g, [canonical_name |-> canonical_name,
                                  type |-> entity_type]),
                   <<>>, [surface_form |-> surface_form, confidence |-> confidence])]

\* MATCH (e1:Entity {canonical_name: $source})
\* MATCH (e2:Entity {canonical_name: $target})
\* MERGE (e1)-[r:RELATED {type: $rel_type}]->(e2) SET r.context, r.confidence
MergeRelated(g, source, target, rel_type, context, confidence) ==
    [g EXCEPT !.related =
        MergeEdges(@, EntityRefs(g, [canonical_name |-> source]),
                   EntityRefs(g, [canonical_name |-> target]),
                   [type |-> rel_type],
                   [context |-> context, confidence |-> confidence])]

\* MATCH (d:Document {hash: $doc_hash}) MERGE (t:Topic {name, type})
\* SET t.entity_count = ..., t.document_hash = ... MERGE (d)-[:HAS_TOPIC]->(t)
MergeTopic(g, doc_hash, topic_name, entity_type, entity_count) ==
    IF DocumentRefs(g, [hash |-> doc_hash]) = {} THEN g
    ELSE [g EXCEPT
            !.topics =
                Merge(@, [name |-> topic_name, type |-> entity_type],
                      [entity_count |-> entity_count, document_hash |-> doc_hash]),
            !.has_topic =
                MergeEdges(@, DocumentRefs(g, [hash |-> doc_hash]),
                           {[name |-> topic_name, type |-> entity_type]}, <<>>, <<>>)]

\* MATCH (t:Topic {name: $topic_name})
\* MATCH (e:Entity {canonical_name: $entity_name, type: $entity_type})
\* MERGE (t)-[:INCLUDES]->(e)
MergeIncludes(g, topic_name, entity_name, entity_type) ==
    [g EXCEPT !.includes =
        MergeEdges(@, TopicRefs(g, [name |-> topic_name]),
                   EntityRefs(g, [canonical_name |-> entity_name,
                                  type |-> entity_type]),
                   <<>>, <<>>)]

(***************************************************************************)
(* Ingestion (GraphRAGSystem.ingest_document and the graph builder).       *)
(***************************************************************************)
\* s.rfind(c) for a character c: its last 0-based position, -1 when absent
RFind(s, c) ==
    LET at == {i \in 1..Len(s) : Ch(s, i) = c}
    IN  IF at = {} THEN -1 ELSE (CHOOSE i \in at : \A j \in at : j <= i) - 1

\* Path(file_path).name
PathName(file_path) == Slice(file_path, RFind(file_path, "/") + 1, Len(file_path))

\* The suffix of a file name: from its last dot, unless the dot leads or ends it
NameSuffix(name, dot) ==
    IF dot <= 0 \/ dot = Len(name) - 1 THEN "" ELSE Slice(name, dot, Len(name))

\* Path(file_path).suffix
PathSuffix(file_path) == NameSuffix(PathName(file_path), RFind(PathName(file_path), "."))

IsLetter(c) ==
    \E i \in 1..Len(LowerChars) : Ch(LowerChars, i) = c \/ Ch(UpperChars, i) = c

UpperCh(c) ==
    IF \E i \in 1..Len(LowerChars) : Ch(LowerChars, i) = c
    THEN Ch(UpperChars, CHOOSE i \in 1..Len(LowerChars) : Ch(LowerChars, i) = c)
    ELSE c

RECURSIVE TitleRange(_, _, _)
\* The characters lo..hi of s.title(): a letter after a letter is lowered,
\* any other letter raised
TitleRange(s, lo, hi) ==
    IF lo > hi THEN ""
    ELSE IF lo = hi
    THEN (IF lo > 1 /\ IsLetter(Ch(s, lo - 1)) THEN LowerCh(Ch(s, lo)) ELSE UpperCh(Ch(s, lo)))
    ELSE TitleRange(s, lo, (lo + hi) \div 2) \o TitleRange(s, (lo + hi) \div 2 + 1, hi)

\* str.title()
Title(s) == TitleRange(s, 1, Len(s))

\* hashlib.sha256(content.encode('utf-8')).hexdigest()[:16], as an injection:
\* equal inputs give equal hashes and collisions of the digest are left out
_generate_document_hash(content) == "sha256(" \o content \o ")"

\* The chunks _create_chunks keeps of the windows it cuts
KeptChunks(windows) ==
    [k \in 1..Len(windows) |-> Strip(windows[k])]

\* The windows of chunk_size words, one every chunk_size - overlap words
Windows(words, chunk_size, overlap) ==
    [k \in 1..Len(RangeList(Len(words), chunk_size - overlap)) |->
        Join(ListSlice(words, (k - 1) * (chunk_size - overlap),
                       (k - 1) * (chunk_size - overlap) + chunk_size), " ")]

\* GraphRAGSystem._create_chunks (overlap = 50)
_create_chunks(text, chunk_size) ==
    IF text = "" \/ Len(Split(text)) < 10 THEN <<>>
    ELSE KeptChunks(SelectSeq(Windows(Split(text), chunk_size, 50),
                              LAMBDA chunk : Len(Strip(chunk)) > 20))

\* _extract_all_entities of a builder made with the given spaCy pipeline:
\* without one, no entity is extracted, and the blank pipeline has no
\* component that sets doc.ents
ExtractedEntities(nlp, chunks) ==
    IF nlp \in {"None", "blank"} THEN <<>> ELSE _extract_all_entities(chunks)

\* full_chunk_id = f"{document_hash}_chunk_{chunk_index}"
FullChunkId(document_hash, chunk_index) == document_hash \o "_chunk_" \o chunk_index

RECURSIVE StoreChunks(_, _, _, _)
\* The chunk loop of _store_enhanced_graph, from the chunk of index i
StoreChunks(g, document_hash, chunks, i) ==
    IF i >= Len(chunks) THEN g
    ELSE StoreChunks(MergeChunk(g, document_hash,
                                FullChunkId(document_hash, ToString(i)),
                                chunks[i + 1].content, i,
                                Len(Split(chunks[i + 1].content))),
                     document_hash, chunks, i + 1)

RECURSIVE StoreMentions(_, _, _, _)
\* The mention loop of _store_enhanced_graph for one entity
StoreMentions(g, document_hash, entity, mentions) ==
    IF Len(mentions) = 0 THEN g
    ELSE StoreMentions(MergeMention(g, entity.canonical_name, entity.entity_type,
                                    FullChunkId(document_hash,
                                                Remove(Head(mentions).chunk_id, "chunk_")),
                                    Head(mentions).text, Head(mentions).confidence),
                       document_hash, entity, Tail(mentions))

\* The entity loop of _store_enhanced_graph for one entity of the dict: an
\* entity without a name is skipped
StoreEntity(g, document_hash, entity) ==
    IF entity.canonical_name = "" \/ entity.canonical_name = "Unknown" THEN g
    ELSE StoreMentions(MergeEntity(g, entity.canonical_name, entity.entity_type,
                                   entity.normalized_name, entity.mention_count,
                                   [i \in 1..Len(entity.mentions) |->
                                       entity.mentions[i].text]),
                       document_hash, entity, entity.mentions)

RECURSIVE StoreEntities(_, _, _)
\* The entity loop of _store_enhanced_graph
StoreEntities(g, document_hash, entities) ==
    IF Len(entities) = 0 THEN g
    ELSE StoreEntities(StoreEntity(g, document_hash, Head(entities)),
                       document_hash, Tail(entities))

RECURSIVE StoreRelationships(_, _)
\* The relationship loop of _store_enhanced_graph
StoreRelationships(g, relationships) ==
    IF Len(relationships) = 0 THEN g
    ELSE StoreRelationships(
             MergeRelated(g, Head(relationships).source_entity,
                          Head(relationships).target_entity,
                          Head(relationships).relation_type,
                          Slice(Head(relationships).context, 0, 500),
                          Head(relationships).confidence),
             Tail(relationships))

_store_enhanced_graph(g, document_hash, chunks, entities, relationships, metadata) ==
    StoreRelationships(
        StoreEntities(
            StoreChunks(MergeDocument(g, document_hash, metadata.title,
                                      metadata.file_type, metadata.word_count,
                                      Len(chunks)),
                        document_hash, chunks, 0),
            document_hash, entities),
        relationships)

\* The canonical names of the entities of one type
NamesOfType(entities, entity_type) ==
    [k \in 1..Len(SelectSeq(entities, LAMBDA e : e.entity_type = entity_type)) |->
        SelectSeq(entities, LAMBDA e : e.entity_type = entity_type)[k].canonical_name]

\* entity_types of _create_topic_nodes: the types in the order of their first
\* entity, each with the canonical names of its entities
EntityTypes(entities) ==
    [t \in 1..Len(FirstSeen([k \in 1..Len(entities) |-> entities[k].entity_type])) |->
        [entity_type |->
            FirstSeen([k \in 1..Len(entities) |-> entities[k].entity_type])[t],
         entity_names |->
            NamesOfType(entities,
                        FirstSeen([k \in 1..Len(entities) |->
                                      entities[k].entity_type])[t])]]

RECURSIVE TopicIncludes(_, _, _, _)
\* The inner loop of _create_topic_nodes: the topic includes each entity
TopicIncludes(g, topic_name, entity_type, entity_names) ==
    IF Len(entity_names) = 0 THEN g
    ELSE TopicIncludes(MergeIncludes(g, topic_name, Head(entity_names), entity_type),
                       topic_name, entity_type, Tail(entity_names))

\* topic_name = f"{metadata.get('title', 'Document')} - {entity_type.title()} Topics"
TopicName(title, entity_type) == title \o " - " \o Title(entity_type) \o " Topics"

RECURSIVE CreateTopics(_, _, _, _)
\* The outer loop of _create_topic_nodes: a topic for every type with two
\* entities or more
CreateTopics(g, document_hash, title, groups) ==
    IF Len(groups) = 0 THEN g
    ELSE IF Len(Head(groups).entity_names) >= 2
    THEN CreateTopics(
             TopicIncludes(MergeTopic(g, document_hash,
                                      TopicName(title, Head(groups).entity_type),
                                      Head(groups).entity_type,
                                      Len(Head(groups).entity_names)),
                           TopicName(title, Head(groups).entity_type),
                           Head(groups).entity_type, Head(groups).entity_names),
             document_hash, title, Tail(groups))
    ELSE CreateTopics(g, document_hash, title, Tail(groups))

_create_topic_nodes(g, document_hash, entities, metadata) ==
    CreateTopics(g, document_hash, metadata.title, EntityTypes(entities))

\* The result of steps 1 to 3, given the result of step 2
ExtractedFrom(chunks, normalized_entities) ==
    [entities |-> normalized_entities,
     relationships |-> _extract_relationships(chunks, normalized_entities)]

\* Steps 1 to 3 of build_enhanced_graph
ExtractionSteps(nlp, chunks) ==
    ExtractedFrom(chunks, _normalize_entities(ExtractedEntities(nlp, chunks)))

\* AdvancedGraphBuilder.build_enhanced_graph: the graph after steps 4 and 5,
\* given the result of steps 1 to 3
BuildFrom(g, extraction, document_hash, chunks, metadata) ==
    _create_topic_nodes(
        _store_enhanced_graph(g, document_hash, chunks, extraction.entities,
                              extraction.relationships, metadata),
        document_hash, extraction.entities, metadata)

\* The labels _create_knowledge_graph_basic keeps
BasicEntityLabels == <<"PERSON", "ORG", "GPE", "EVENT", "MONEY", "PRODUCT">>

\* MERGE (d:Document {name: $name}) SET d.path = ..., d.content_preview = ...
MergeDocumentByName(g, name, path, text) ==
    [g EXCEPT !.documents =
        Merge(@, [name |-> name],
              [path |-> path, content_preview |-> Slice(text, 0, 200)])]

\* MATCH (d:Document {name: $doc_name}) MERGE (c:Chunk {id: $chunk_id})
\* SET c.content = ..., c.index = ... MERGE (d)-[:CONTAINS]->(c)
MergeChunkByName(g, doc_name, chunk_id, content, index) ==
    IF DocumentRefs(g, [name |-> doc_name]) = {} THEN g
    ELSE [g EXCEPT
            !.chunks =
                Merge(@, [id |-> chunk_id], [content |-> content, index |-> index]),
            !.contains =
                MergeEdges(@, DocumentRefs(g, [name |-> doc_name]), {[id |-> chunk_id]},
                           <<>>, <<>>)]

\* The graph with the MENTIONS edges from the chunks to the entity
MentionedBy(g, chunks, name, type_) ==
    [g EXCEPT !.mentions =
        MergeEdges(@, chunks, EntityRefs(g, [name |-> name, type |-> type_]), <<>>, <<>>)]

\* MATCH (c:Chunk {id: $chunk_id}) MERGE (e:Entity {name: $name, type: $type_})
\* MERGE (c)-[:MENTIONS]->(e)
MergeBasicEntity(g, chunk_id, name, type_) ==
    IF ChunkRefs(g, [id |-> chunk_id]) = {} THEN g
    ELSE MentionedBy([g EXCEPT !.entities =
                         Merge(@, [name |-> name, type |-> type_], <<>>)],
                     ChunkRefs(g, [id |-> chunk_id]), name, type_)

\* The entities _create_knowledge_graph_basic keeps of a chunk
BasicEntities(nlp, chunk) ==
    IF nlp \notin {"None", "blank"}
    THEN SelectSeq(Nlp(Slice(chunk, 0, 1000)),
                   LAMBDA e : e.label_ \in Range(BasicEntityLabels))
    ELSE <<>>

RECURSIVE BasicMentions(_, _, _)
\* The entity loop of _create_knowledge_graph_basic for one chunk
BasicMentions(g, chunk_id, ents) ==
    IF Len(ents) = 0 THEN g
    ELSE BasicMentions(MergeBasicEntity(g, chunk_id, Strip(Head(ents).text),
                                        Head(ents).label_),
                       chunk_id, Tail(ents))

\* chunk_id = f"{doc_name}_chunk_{i}"
BasicChunkId(doc_name, i) == doc_name \o "_chunk_" \o ToString(i)

RECURSIVE BasicChunks(_, _, _, _, _)
\* The chunk loop of _create_knowledge_graph_basic, from the chunk of index i
BasicChunks(g, nlp, doc_name, chunks, i) ==
    IF i >= Len(chunks) THEN g
    ELSE BasicChunks(BasicMentions(MergeChunkByName(g, doc_name,
                                                    BasicChunkId(doc_name, i),
                                                    chunks[i + 1], i),
                                   BasicChunkId(doc_name, i),
                                   BasicEntities(nlp, chunks[i + 1])),
                     nlp, doc_name, chunks, i + 1)

\* GraphRAGSystem._create_knowledge_graph_basic with a reachable database
_create_knowledge_graph_basic(g, nlp, file_path, full_text, chunks) ==
    BasicChunks(MergeDocumentByName(g, PathName(file_path), file_path, full_text),
                nlp, PathName(file_path), chunks, 0)

RECURSIVE EmbedChunks(_, _, _, _)
\* The loop of _create_embeddings_basic, from the chunk of index i:
\* data_object.create adds an object for every chunk
EmbedChunks(index, doc_name, chunks, i) ==
    IF i >= Len(chunks) THEN index
    ELSE EmbedChunks(BagAdd(index, [content |-> chunks[i + 1], source |-> doc_name,
                                    chunk_id |-> BasicChunkId(doc_name, i),
                                    tenant_id |-> "default", chunk_index |-> i]),
                     doc_name, chunks, i + 1)

\* GraphRAGSystem._create_embeddings_basic: without the embedding model or the
\* client every chunk fails and is skipped
_create_embeddings_basic(index, s, file_path, chunks) ==
    IF ~(s.embeddings_model /\ s.weaviate_client) THEN index
    ELSE EmbedChunks(index, PathName(file_path), chunks, 0)

\* The arguments ingest_document prepares for the chunks it has made
PlannedFor(file_path, text, chunks, doc_name) ==
    [document_hash |-> _generate_document_hash(text \o doc_name),
     chunks |-> chunks,
     chunk_objects |-> ChunkObjects(chunks),
     metadata |-> [title |-> doc_name, file_type |-> Lower(PathSuffix(file_path)),
                   word_count |-> Len(Split(text)), chunk_count |-> Len(chunks)]]

\* The arguments ingest_document gives build_enhanced_graph
IngestPlan(file_path, text) ==
    PlannedFor(file_path, text, _create_chunks(text, 500), PathName(file_path))

\* The files the model uploads
UploadedFiles ==
    {[filename |-> "report.txt", content |-> FoundedText \o "\n"],
     [filename |-> "memo.md", content |-> WorksText],
     [filename |-> "note.txt", content |-> ShortText],
     [filename |-> "tool.exe", content |-> FoundedText]}

\* The files of /app/sample_docs, which the batches and the directory
\* ingestion read; no file exists at the last path
SampleFiles ==
    {[file_path |-> "/app/sample_docs/report.txt", exists |-> TRUE,
      content |-> FoundedText \o "\n"],
     [file_path |-> "/app/sample_docs/memo.txt", exists |-> TRUE,
      content |-> WorksText \o "\n\n" \o ShortText],
     [file_path |-> "/app/sample_docs/note.txt", exists |-> TRUE, content |-> ShortText],
     [file_path |-> "/app/sample_docs/gone.txt", exists |-> FALSE, content |-> ""]}

\* Texts around the thresholds of the two ingestion paths: of fewer than 10
\* and of fewer than 50 characters, with fewer than 10 words and with 10
TenLetters == "a b c d e f g h i j"
TenWords == "I am at an ox so we go by it"
FewLongWords == "Internationalization notwithstanding, misunderstandings proliferate"
ContentTexts ==
    <<"", "  tiny  ", ShortText, TenLetters, TenWords, FoundedText \o "\n", FewLongWords>>

\* The files that hold them
ContentFiles ==
    {[file_path |-> "/app/uploads/doc" \o ToString(i) \o ".txt", exists |-> TRUE,
      content |-> ContentTexts[i]] : i \in 1..Len(ContentTexts)}

\* The names NamedTemporaryFile draws for the uploaded file
TempNames == {"tmpa", "tmpb"}

\* The arguments of the direct calls of GraphRAGSystem.build_enhanced_graph
BuildInputs ==
    {[document_hash |-> "story", chunks |-> ChunkObjects(<<ToldChunk, AliceChunk>>),
      metadata |-> [title |-> "Story", file_type |-> ".txt", word_count |-> 13]],
     [document_hash |-> "meeting", chunks |-> ChunkObjects(<<MetChunk>>),
      metadata |-> [title |-> "Meeting", file_type |-> ".txt", word_count |-> 4]]}

\* The value, with the functions in it evaluated
Evaluated(v) == IF v = v THEN v ELSE v

\* tmp_path of admin_upload_document
TempPath(tmp, filename) == "/tmp/" \o tmp \o Lower(PathSuffix(filename))

\* The text and the plan of the ingestion of every uploaded file under every
\* temporary name and of every sample file: a table of _extract_text and
\* IngestPlan
CorpusPlans ==
    Evaluated([x \in {<<TempPath(tmp, file.filename), file.content>> :
                         tmp \in TempNames, file \in UploadedFiles}
                     \cup {<<file.file_path, file.content>> :
                              file \in {f \in SampleFiles : f.exists} \cup ContentFiles} |->
                  Evaluated([text |-> Strip(x[2]), plan |-> IngestPlan(x[1], Strip(x[2]))])])

\* _extract_text of the file and the arguments ingest_document prepares
PlanOf(file_path, content) == CorpusPlans[<<file_path, content>>]

\* The chunk lists of the corpus
CorpusChunkLists(plans) ==
    {plans[y].plan.chunk_objects : y \in DOMAIN plans}
        \cup {input.chunks : input \in BuildInputs}

\* Steps 1 to 3 for every chunk list of the corpus: a table of ExtractionSteps
CorpusExtractions ==
    Evaluated([x \in {"en_core_web_sm", "blank"} \X CorpusChunkLists(CorpusPlans) |->
                  Evaluated(ExtractionSteps(x[1], x[2]))])

\* AdvancedGraphBuilder.build_enhanced_graph: the graph after its five steps
build_enhanced_graph(g, nlp, document_hash, chunks, metadata) ==
    BuildFrom(g, CorpusExtractions[<<nlp, chunks>>], document_hash, chunks, metadata)

(***************************************************************************)
(* Initialization (GraphRAGSystem.initialize).                             *)
(***************************************************************************)
\* The fields of the system after initialize: _init_nlp loads the spaCy
\* pipeline (the model is installed), then initialize stops at the first
\* component that fails, and every component initialized before keeps its
\* value
InitializeOutcomes(s) ==
    IF s.initialized THEN {s}
    ELSE LET loaded == [s EXCEPT !.nlp = "en_core_web_sm"]
             connected == [loaded EXCEPT !.neo4j_driver = TRUE, !.graph_builder = TRUE]
             indexed == [connected EXCEPT !.weaviate_client = TRUE]
             embedded == [indexed EXCEPT !.embeddings_model = TRUE]
         IN  {[loaded EXCEPT !.neo4j_driver = TRUE],    \* Neo4j unreachable
              connected,           \* weaviate.Client raised
              indexed,             \* the schema check or the embedding model failed
              [embedded EXCEPT !.initialized = TRUE]}

(***************************************************************************)
(* Queries (GraphRAGSystem.query).                                         *)
(***************************************************************************)
\* _vector_search: the number of chunks the nearest-vector query returns, at
\* most `limit` of the stored objects; a failure is caught and gives none
_vector_search(index, s, fails, limit) ==
    IF fails \/ ~(s.embeddings_model /\ s.weaviate_client) THEN 0
    ELSE Min(limit, BagCardinality(index))

\* search_terms = [word for word in query.lower().split() if len(word) > 2]
SearchTerms(query) == SelectSeq(Split(Lower(query)), LAMBDA word : Len(word) > 2)

\* The rows of the Cypher query of _graph_search before LIMIT: one per
\* (e.name, e.type) of the entities whose name contains a term; an entity
\* without the property name matches no term
GraphMatches(g, query) ==
    {[entity |-> e.name, type |-> e.type] :
        e \in {x \in BagToSet(g.entities) :
                  /\ "name" \in DOMAIN x
                  /\ \E term \in Range(SearchTerms(query)) :
                        Contains(Lower(x.name), term)}}

\* _graph_search: the number of rows returned (LIMIT 5); no search term, no
\* driver or a failure of the database gives none
_graph_search(g, s, fails, query) ==
    IF fails \/ ~s.neo4j_driver \/ Len(SearchTerms(query)) = 0 THEN 0
    ELSE Min(5, Cardinality(GraphMatches(g, query)))

NoInformationAnswer ==
    "I couldn't find any relevant information to answer your question. Please try rephrasing or ask about topics covered in the uploaded documents."

\* An answer generator without the early return for empty results
ComposeAlways(vector_results, graph_results, fails) ==
    "Based on the available information: This response is based on "
        \o ToString(vector_results) \o " document segments"
        \o (IF graph_results > 0
            THEN " and " \o ToString(graph_results) \o " related entities" ELSE "")
        \o " from the knowledge base."

\* _generate_answer over the numbers of results; the context lines quoted
\* from the chunks and the entity names are left out of the answer
_generate_answer(vector_results, graph_results, fails) ==
    IF vector_results = 0 /\ graph_results = 0 THEN NoInformationAnswer
    ELSE IF fails
    THEN "I found some relevant information but encountered an error generating the response: error"
    ELSE "Based on the available information: This response is based on "
            \o ToString(vector_results) \o " document segments"
            \o (IF graph_results > 0
                THEN " and " \o ToString(graph_results) \o " related entities" ELSE "")
            \o " from the knowledge base."

\* The dict query returns at the end of its try block; `failed` records the
\* steps that failed on the way (history)
SuccessResponse(question, answer, vector_results, graph_results, failed) ==
    [op |-> "query", question |-> question, answer |-> answer,
     vector_matches |-> vector_results, graph_entities |-> graph_results,
     status |-> "success", failed |-> failed]

\* An except branch that reports success
ErrorAsSuccess(question, failed) ==
    [op |-> "query", question |-> question,
     answer |-> "Sorry, I encountered an error processing your question: error",
     status |-> "success", failed |-> failed]

\* The dict query returns from its except branch
ErrorResponse(question, failed) ==
    [op |-> "query", question |-> question,
     answer |-> "Sorry, I encountered an error processing your question: error",
     status |-> "error", failed |-> failed]

(***************************************************************************)
(* The upload endpoint (main.admin_upload_document).                       *)
(***************************************************************************)
AllowedExtensions == {".txt", ".pdf", ".docx", ".md", ".html", ".csv", ".xlsx"}

DangerousChars == {"<", ">", ":", "\"", "|", "?", "*", "\\", "/"}

\* SecurityValidator.validate_file_upload(...)["valid"]
validate_file_upload(filename, file_size, max_size_mb) ==
    LET dot == RFind(filename, ".")
        file_ext == IF dot >= 0
                    THEN "." \o Lower(Slice(filename, dot + 1, Len(filename))) ELSE ""
    IN  /\ file_size <= max_size_mb * 1024 * 1024
        /\ file_ext \in AllowedExtensions
        /\ \A i \in 1..Len(filename) : Ch(filename, i) \notin DangerousChars

\* SecurityValidator.validate_tenant_id: ^[a-zA-Z0-9_]{3,50}$
validate_tenant_id(tenant_id) ==
    /\ Len(tenant_id) >= 3
    /\ Len(tenant_id) <= 50
    /\ \A i \in 1..Len(tenant_id) :
          LET c == Ch(tenant_id, i)
          IN  IsLetter(c) \/ IsDigit(c) \/ c = "_"

\* The authenticated callers: an administrator and a user of another tenant
Users ==
    {[role |-> "admin", tenant_id |-> "default"],
     [role |-> "user", tenant_id |-> "acme_corp"]}

TenantIds == {"default", "t1"}

Questions == {"who is alice", "What about Paris?", "Did Bob Smith join ACME"}

(***************************************************************************)
(* The system: its state after construction and its operations.  The       *)
(* graph database and the vector index are reachable while an operation    *)
(* writes to them: an operation that cannot reach them raises before its   *)
(* first write and leaves both stores as they were.                        *)
(***************************************************************************)
\* GraphRAGSystem.ingest_document: the stores after the call, whether it
\* raised, and the arguments it gave build_enhanced_graph, if it got there
ingest_document(s, g, index, file_path, content) ==
    LET Steps(text, plan) ==
            LET returned == [neo4j |-> g, weaviate |-> index, raised |-> FALSE,
                             built |-> FALSE, plan |-> plan, text |-> text]
            IN  IF text = "" \/ Len(Strip(text)) < 10 THEN returned
                ELSE IF Len(plan.chunks) = 0 THEN returned
                ELSE IF s.graph_builder
                THEN [returned EXCEPT
                        !.neo4j = build_enhanced_graph(g, s.nlp, plan.document_hash,
                                                       plan.chunk_objects, plan.metadata),
                        !.weaviate = _create_embeddings_basic(index, s, file_path,
                                                              plan.chunks),
                        !.built = TRUE]
                ELSE IF s.neo4j_driver
                THEN [returned EXCEPT
                        !.neo4j = _create_knowledge_graph_basic(g, s.nlp, file_path,
                                                                text, plan.chunks),
                        !.weaviate = _create_embeddings_basic(index, s, file_path,
                                                              plan.chunks)]
                ELSE [returned EXCEPT !.raised = TRUE]
        Planned(planned) == Steps(planned.text, planned.plan)
    IN  Planned(PlanOf(file_path, content))

\* The record of a call of build_enhanced_graph
BuildCall(document_hash, chunks, metadata) ==
    [op |-> "build_enhanced_graph", document_hash |-> document_hash,
     chunks |-> chunks, metadata |-> metadata,
     runs |-> IF /\ last.op = "build_enhanced_graph"
                 /\ last.document_hash = document_hash
                 /\ last.chunks = chunks
                 /\ last.metadata = metadata
              THEN 2 ELSE 1]

\* The stores stay within the bounds of the model
WithinBounds(g, index) ==
    /\ BagCardinality(g.documents) <= MaxDocuments
    /\ BagCardinality(index) <= MaxVectors

Init ==
    /\ SystemIdle
    /\ pc = "system"
    /\ arg = <<>>
    /\ ret = <<>>

\* startup_event: initialize, once; what fails is logged and startup goes on
Initialize ==
    /\ ~sys.initialized
    /\ \E s \in InitializeOutcomes(sys) : sys' = s
    /\ UNCHANGED <<neo4j, weaviate, response, last, built, pc, arg, ret>>

\* The checks of admin_upload_document before the file is saved: the other
\* requests are answered 400 or 403 and change nothing
UploadAccepted(file, tenant_id, current_user) ==
    /\ file.filename # ""
    /\ validate_file_upload(file.filename, Len(file.content), 100)
    /\ validate_tenant_id(tenant_id)
    /\ current_user.role = "admin" \/ tenant_id = current_user.tenant_id

\* The stores and the history after graphrag.ingest_document(tmp_path), when
\* it does not raise
UploadIngested(result) ==
    /\ ~result.raised
    /\ WithinBounds(result.neo4j, result.weaviate)
    /\ neo4j' = result.neo4j
    /\ weaviate' = result.weaviate
    /\ IF result.built
       THEN /\ last' = BuildCall(result.plan.document_hash,
                                 result.plan.chunk_objects,
                                 result.plan.metadata)
            /\ built' = built \cup
                  {[document_hash |-> result.plan.document_hash,
                    text |-> result.text,
                    chunks |-> result.plan.chunk_objects]}
       ELSE /\ last' = IF result.neo4j = neo4j
                       THEN last ELSE NoOperation
            /\ UNCHANGED built

\* POST /admin/upload by an authenticated caller with write permission: a
\* request that passes the checks and whose ingestion does not raise
AdminUploadDocument ==
    \E file \in UploadedFiles, tenant_id \in TenantIds, current_user \in Users :
        /\ UploadAccepted(file, tenant_id, current_user)
        /\ \E tmp \in TempNames :
              UploadIngested(ingest_document(sys, neo4j, weaviate,
                                             TempPath(tmp, file.filename), file.content))
        /\ UNCHANGED <<sys, response, pc, arg, ret>>

\* GraphRAGSystem.build_enhanced_graph: without a graph builder it returns {}
BuildEnhancedGraph ==
    \E input \in BuildInputs :
        /\ sys.graph_builder
        /\ LET Return(g) ==
                   /\ WithinBounds(g, weaviate)
                   /\ neo4j' = g
                   /\ last' = BuildCall(input.document_hash, input.chunks,
                                        input.metadata)
                   /\ built' = built \cup {[document_hash |-> input.document_hash,
                                            chunks |-> input.chunks]}
                   /\ UNCHANGED <<sys, weaviate, response, pc, arg, ret>>
           IN  Return(build_enhanced_graph(neo4j, sys.nlp, input.document_hash,
                                           input.chunks, input.metadata))

Next ==
    \/ Initialize
    \/ AdminUploadDocument
    \/ BuildEnhancedGraph

Spec == Init /\ [][Next]_vars

\* C1: a run of build_enhanced_graph with the document hash, the chunks and
\* the metadata of the run before it, on the graph as that run left it,
\* leaves the graph store as it was: the same nodes and the same edges, none
\* of them duplicated.
C1_GraphIdempotence ==
    [][(last'.op = "build_enhanced_graph" /\ last'.runs = 2) => neo4j' = neo4j]_vars

\* C1 witness: a second run for a document with chunks, entities, mentions,
\* relationships and a topic
C1_Witness ==
    /\ last.op = "build_enhanced_graph"
    /\ last.runs = 2
    /\ BagCardinality(neo4j.documents) = 1
    /\ neo4j.chunks # EmptyBag
    /\ neo4j.mentions # EmptyBag
    /\ neo4j.related # EmptyBag
    /\ neo4j.includes # EmptyBag

\* The Document nodes stored under one of the hashes
DocumentsOf(hashes) ==
    SumCopies(neo4j.documents,
              {d \in DOMAIN neo4j.documents : "hash" \in DOMAIN d /\ d.hash \in hashes})

\* C2: the document hash is a function of the content only: every ingestion
\* of the same content, under whatever file name or path, has the same hash,
\* and the graph holds exactly one Document node for that content.
C2_HashOfContentOnly ==
    \A a \in built :
        "text" \in DOMAIN a =>
            LET same == {b \in built : "text" \in DOMAIN b /\ b.text = a.text}
            IN  /\ \A b \in same : b.document_hash = a.document_hash
                /\ DocumentsOf({b.document_hash : b \in same}) = 1

\* The mentions of the entity (canonical name and type) in a list of chunks
MentionsIn(chunks, canonical_name, entity_type) ==
    LET entities == CorpusExtractions[<<sys.nlp, chunks>>].entities
        found == {k \in 1..Len(entities) :
                     /\ entities[k].canonical_name = canonical_name
                     /\ entities[k].entity_type = entity_type}
    IN  IF found = {} THEN 0 ELSE entities[CHOOSE k \in found : TRUE].mention_count

RECURSIVE TotalMentions(_, _, _)
\* The mentions of the entity over a set of ingested documents
TotalMentions(documents, canonical_name, entity_type) ==
    IF documents = {} THEN 0
    ELSE LET d == CHOOSE x \in documents : TRUE
         IN  MentionsIn(d.chunks, canonical_name, entity_type)
                + TotalMentions(documents \ {d}, canonical_name, entity_type)

\* C3: after any sequence of ingestions the stored mention_count of each
\* entity is the total number of its mentions over the distinct documents
\* ingested (re-ingesting a document adds nothing).
C3_MentionCountsAccumulate ==
    \A e \in DOMAIN neo4j.entities :
        "mention_count" \in DOMAIN e =>
            e.mention_count = TotalMentions(built, e.canonical_name, e.type)

\* C4: the graph store holds at most one Entity node per (normalized name,
\* type); once a document that mentions "Bob Smith" and a document that
\* mentions "bob smith" are ingested, a single entity stands for both, with
\* mention_count 2 and both casings among its surface forms.
C4_EntityIdentity ==
    LET entities == {e \in DOMAIN neo4j.entities : "normalized_name" \in DOMAIN e}
    IN  /\ \A e \in entities :
              SumCopies(neo4j.entities,
                        {x \in entities : /\ x.normalized_name = e.normalized_name
                                          /\ x.type = e.type}) = 1
        /\ {Strip(FoundedText), Strip(WorksText)}
                \subseteq {b.text : b \in {x \in built : "text" \in DOMAIN x}} =>
              \E e \in entities :
                  /\ e.normalized_name = "bob smith"
                  /\ e.type = "PERSON"
                  /\ e.mention_count = 2
                  /\ {"Bob Smith", "bob smith"} \subseteq Range(e.surface_forms)

\* C11: vector-store writes are upserts keyed by chunk id: however often a
\* document is ingested, the vector index holds exactly one record for each
\* chunk id.
C11_VectorUpserts ==
    \A o \in DOMAIN weaviate :
        SumCopies(weaviate, {x \in DOMAIN weaviate : x.chunk_id = o.chunk_id}) = 1

\* C17: after any sequence of ingestions, the graph store holds at most one
\* RELATED edge of a type between two entities, whatever its direction: a
\* later document that produces the reverse of a stored relationship adds no
\* second edge.
C17_StoredRelationshipSymmetry ==
    \A e1, e2 \in DOMAIN neo4j.related :
        (e1.type = e2.type /\ {e1.source, e1.target} = {e2.source, e2.target})
            => (e1 = e2 /\ neo4j.related[e1] = 1)

(***************************************************************************)
(* Queries against the stores an earlier run of the system has filled: the *)
(* graph database and the vector index outlive the process, which starts   *)
(* uninitialized.                                                          *)
(***************************************************************************)
\* A system whose initialize has succeeded
InitializedSys ==
    [initialized |-> TRUE, nlp |-> "en_core_web_sm", neo4j_driver |-> TRUE,
     graph_builder |-> TRUE, weaviate_client |-> TRUE, embeddings_model |-> TRUE]

\* The stores after the upload of a file to the system s
Uploaded(s, stored, filename, content) ==
    LET Stored(result) == [neo4j |-> result.neo4j, weaviate |-> result.weaviate]
    IN  Stored(ingest_document(s, stored.neo4j, stored.weaviate,
                               TempPath("tmpa", filename), content))

\* The stores the system finds: empty ones, the ones left by the upload of
\* the first file of the corpus to an initialized system or to one that has
\* a driver and no graph builder, or by the upload of its first two files
StoredStates ==
    LET empty == [neo4j |-> EmptyGraph, weaviate |-> EmptyBag]
        Reported(s) == Uploaded(s, empty, "report.txt", FoundedText \o "\n")
    IN  {empty,
         Reported(InitializedSys),
         Reported([InitialSys EXCEPT !.nlp = "en_core_web_sm",
                                     !.neo4j_driver = TRUE]),
         Uploaded(InitializedSys, Reported(InitializedSys), "memo.md", WorksText)}

QueryInit ==
    /\ sys = InitialSys
    /\ \E stored \in StoredStates :
          /\ neo4j = stored.neo4j
          /\ weaviate = stored.weaviate
    /\ response = NoResponse
    /\ last = NoOperation
    /\ built = {}
    /\ pc = "system"
    /\ arg = ""
    /\ ret = <<>>

\* GraphRAGSystem.query; each of its steps may fail
Query ==
    \E question \in Questions, s \in InitializeOutcomes(sys) :
        /\ arg' = question
        /\ sys' = s
        /\ IF ~s.initialized
           THEN response' = ErrorResponse(question, {"initialization"})
           ELSE \E vector_fails, graph_fails, answer_fails \in BOOLEAN :
                   LET Return(vector_results, graph_results) ==
                           LET composing_fails ==
                                   answer_fails
                                       /\ (vector_results > 0 \/ graph_results > 0)
                               failed ==
                                   {step \in {"vector search", "graph search", "answer"} :
                                       \/ step = "vector search" /\ vector_fails
                                       \/ step = "graph search" /\ graph_fails
                                       \/ step = "answer" /\ composing_fails}
                           IN  response' =
                                   SuccessResponse(
                                       question,
                                       _generate_answer(vector_results, graph_results,
                                                        composing_fails),
                                       vector_results, graph_results, failed)
                   IN  Return(_vector_search(weaviate, s, vector_fails, 5),
                              _graph_search(neo4j, s, graph_fails, question))
        /\ UNCHANGED <<neo4j, weaviate, last, built, pc, ret>>

QueryNext ==
    \/ Initialize
    \/ Query

SpecQuery == QueryInit /\ [][QueryNext]_vars

\* C8: a query whose initialization has not failed, against an empty graph
\* store and an empty vector index, returns the "couldn't find any relevant
\* information" answer with the status 'success', whatever the question and
\* whether or not a search step failed.
C8_EmptyStoresQuery ==
    (/\ response.op = "query"
     /\ "initialization" \notin response.failed
     /\ neo4j = EmptyGraph
     /\ weaviate = EmptyBag) =>
        /\ response.answer = NoInformationAnswer
        /\ response.status = "success"

\* C8 witness: a query on empty stores, none of whose steps failed
C8_Witness ==
    /\ response.op = "query"
    /\ response.failed = {}
    /\ neo4j = EmptyGraph
    /\ weaviate = EmptyBag
    /\ response.answer = NoInformationAnswer

C21_GraphSearchFindsEntities ==
    (response.op = "query" /\ response.failed = {}) =>
        \A x \in BagToSet(neo4j.entities) :
            (/\ "canonical_name" \in DOMAIN x
             /\ \E term \in Range(SearchTerms(arg)) :
                   Contains(Lower(x.canonical_name), term))
                => /\ x.canonical_name \in {row.entity : row \in GraphMatches(neo4j, arg)}
                   /\ response.graph_entities >= 1

(***************************************************************************)
(* Batch ingestion (AdvancedDocumentProcessor.process_batch,               *)
(* GraphRAGSystem.ingest_batch and GraphRAGSystem.ingest_directory).       *)
(***************************************************************************)
MaxBatch == 2

RECURSIVE SplitOn(_, _)
\* s.split(sep), sep not empty
SplitOn(s, sep) ==
    IF ~Contains(s, sep) THEN <<s>>
    ELSE <<Slice(s, 0, Find(s, sep))>>
            \o SplitOn(Slice(s, Find(s, sep) + Len(sep), Len(s)), sep)

RECURSIVE ParagraphChunks(_, _, _, _, _)
\* The loop of _chunk_by_paragraphs and the step after it
ParagraphChunks(paragraphs, chunks, current_chunk, current_size, max_chunk_size) ==
    IF Len(paragraphs) = 0
    THEN (IF Len(current_chunk) > 0
          THEN Append(chunks, Join(current_chunk, "\n\n")) ELSE chunks)
    ELSE IF current_size + Len(Head(paragraphs)) > max_chunk_size /\ Len(current_chunk) > 0
    THEN ParagraphChunks(Tail(paragraphs), Append(chunks, Join(current_chunk, "\n\n")),
                         <<Head(paragraphs)>>, Len(Head(paragraphs)), max_chunk_size)
    ELSE ParagraphChunks(Tail(paragraphs), chunks, Append(current_chunk, Head(paragraphs)),
                         current_size + Len(Head(paragraphs)) + 2, max_chunk_size)

\* paragraphs = [p.strip() for p in content.split('\n\n') if p.strip()]
_chunk_by_paragraphs(content, max_chunk_size) ==
    ParagraphChunks(
        SelectSeq([k \in 1..Len(SplitOn(content, "\n\n")) |->
                      Strip(SplitOn(content, "\n\n")[k])],
                  LAMBDA p : p # ""),
        <<>>, <<>>, 0, max_chunk_size)

\* Function-level specification of the paragraph chunker: texts of up to
\* MaxParagraphs paragraphs of several lengths, some with spaces around
\* them, joined by blank lines
MaxParagraphs == 3

ParagraphTexts == {"a", " bb ", "cccc", "eeeeeee"}

ParagraphsInit ==
    /\ SystemIdle
    /\ pc = "paragraphs"
    /\ \E paragraphs \in BoundedSeq(ParagraphTexts, MaxParagraphs), size \in {4, 6} :
          arg = [content |-> Join(paragraphs, "\n\n"), max_chunk_size |-> size]
    /\ ret = <<>>

ParagraphsCall ==
    /\ pc = "paragraphs"
    /\ pc' = "chunked"
    /\ ret' = _chunk_by_paragraphs(arg.content, arg.max_chunk_size)
    /\ UNCHANGED <<arg, SystemVars>>

SpecParagraphs == ParagraphsInit /\ [][ParagraphsCall]_vars

\* C22: every paragraph of the text is, unsplit, in exactly one chunk, the
\* paragraphs keep their order, and a chunk of two or more paragraphs,
\* blank-line separators included, is no longer than max_size.
C22_ParagraphSizeBound ==
    pc = "chunked" =>
        /\ Concat([k \in 1..Len(ret) |-> SplitOn(ret[k], "\n\n")])
              = SelectSeq([k \in 1..Len(SplitOn(arg.content, "\n\n")) |->
                              Strip(SplitOn(arg.content, "\n\n")[k])],
                          LAMBDA p : p # "")
        /\ \A k \in 1..Len(ret) :
              Len(SplitOn(ret[k], "\n\n")) >= 2 => Len(ret[k]) <= arg.max_chunk_size

\* DocumentChunk(content, chunk_index, metadata); section_title and chunk_type
\* are stored and never read
DocumentChunk(content, chunk_index, metadata) ==
    [content |-> content, chunk_index |-> chunk_index,
     chunk_id |-> metadata.document_hash \o "_" \o ToString(chunk_index),
     word_count |-> Len(Split(content)), char_count |-> Len(content)]

\* AdvancedDocumentProcessor._create_chunks with the strategy 'paragraph': the
\* chunks of more than 50 characters, each with its index among all of them
DocumentChunks(content, metadata) ==
    LET chunk_texts == _chunk_by_paragraphs(content, 800)
        kept == SelectSeq([i \in 1..Len(chunk_texts) |-> i],
                          LAMBDA i : Len(Strip(chunk_texts[i])) > 50)
    IN  [k \in 1..Len(kept) |-> DocumentChunk(chunk_texts[kept[k]], kept[k] - 1, metadata)]

\* AdvancedDocumentProcessor.process_document of a file (.txt, or of a format
\* that is not supported): the metadata and the chunks it returns, or
\* `raised` when there is no file at the path (path.stat() raises).  Of the
\* metadata, the fields taken from the file system (sizes and dates) are
\* left out
process_document(file, tenant_id) ==
    LET name == PathName(file.file_path)
        metadata == [title |-> Slice(name, 0, Len(name) - Len(PathSuffix(file.file_path))),
                     file_type |-> Lower(PathSuffix(file.file_path)),
                     tenant_id |-> tenant_id, word_count |-> 0, document_hash |-> "None"]
        content == IF metadata.file_type = ".txt" THEN Strip(file.content) ELSE ""
        analysed == [metadata EXCEPT !.word_count = Len(Split(content)),
                                     !.document_hash = _generate_document_hash(content)]
    IN  IF ~file.exists THEN [raised |-> TRUE, metadata |-> metadata, chunks |-> <<>>]
        ELSE IF content = "" \/ Len(Strip(content)) < 50
        THEN [raised |-> FALSE, metadata |-> metadata, chunks |-> <<>>]
        ELSE [raised |-> FALSE, metadata |-> analysed,
              chunks |-> DocumentChunks(content, analysed)]

\* A table of process_document: the sample files under the tenant 'default'
ProcessedFiles ==
    Evaluated([file \in SampleFiles |-> Evaluated(process_document(file, "default"))])

RECURSIVE StoreChunksAdvanced(_, _, _)
\* The chunk loop of _store_document_advanced: MATCH (d:Document {hash})
\* MERGE (c:Chunk {id}) SET c += $chunk_props
\* MERGE (d)-[:CONTAINS {index}]->(c).  The query of
\* _extract_entities_advanced sets properties of `r`, a variable it never
\* binds: the database rejects it, the exception is caught and logged, and
\* no entity is written
StoreChunksAdvanced(g, doc_hash, chunks) ==
    IF Len(chunks) = 0 \/ DocumentRefs(g, [hash |-> doc_hash]) = {} THEN g
    ELSE StoreChunksAdvanced(
             [g EXCEPT
                !.chunks = Merge(@, [id |-> Head(chunks).chunk_id],
                                 [k \in DOMAIN Head(chunks) \ {"chunk_id"} |->
                                     Head(chunks)[k]]),
                !.contains = MergeEdges(@, DocumentRefs(g, [hash |-> doc_hash]),
                                        {[id |-> Head(chunks).chunk_id]},
                                        [index |-> Head(chunks).chunk_index], <<>>)],
             doc_hash, Tail(chunks))

\* _store_document_advanced: MERGE (d:Document {hash}) SET d += $props,
\* d.chunk_count = $chunk_count, then the chunk loop
_store_document_advanced(g, metadata, chunks) ==
    StoreChunksAdvanced(
        [g EXCEPT !.documents =
            Merge(@, [hash |-> metadata.document_hash],
                  [title |-> metadata.title, file_type |-> metadata.file_type,
                   word_count |-> metadata.word_count, tenant_id |-> metadata.tenant_id,
                   document_hash |-> metadata.document_hash,
                   chunk_count |-> Len(chunks)])],
        metadata.document_hash, chunks)

RECURSIVE _create_embeddings_advanced(_, _, _)
\* _create_embeddings_advanced: data_object.create adds an object for every
\* chunk
_create_embeddings_advanced(index, metadata, chunks) ==
    IF Len(chunks) = 0 THEN index
    ELSE _create_embeddings_advanced(
             BagAdd(index, [content |-> Head(chunks).content,
                            chunk_id |-> Head(chunks).chunk_id,
                            chunk_index |-> Head(chunks).chunk_index,
                            word_count |-> Head(chunks).word_count,
                            document_title |-> metadata.title,
                            file_type |-> metadata.file_type,
                            tenant_id |-> metadata.tenant_id,
                            document_hash |-> metadata.document_hash]),
             metadata, Tail(chunks))

\* What fails while one file is stored: nothing, the graph database or the
\* vector index (or the embedding model)
Faults == {"none", "graph", "vector"}

\* GraphRAGSystem.ingest_document_advanced, given what process_document
\* returns for the file: the stores after the call and whether it raised.  A
\* failure of the graph database is raised before its first write, a failure
\* of the vector index before its first object
ingest_document_advanced(s, g, index, processed, fault) ==
    IF processed.raised THEN [neo4j |-> g, weaviate |-> index, raised |-> TRUE]
    ELSE IF Len(processed.chunks) = 0 THEN [neo4j |-> g, weaviate |-> index, raised |-> FALSE]
    ELSE IF ~s.neo4j_driver \/ fault = "graph"
    THEN [neo4j |-> g, weaviate |-> index, raised |-> TRUE]
    ELSE IF ~(s.embeddings_model /\ s.weaviate_client) \/ fault = "vector"
    THEN [neo4j |-> _store_document_advanced(g, processed.metadata, processed.chunks),
          weaviate |-> index, raised |-> TRUE]
    ELSE [neo4j |-> _store_document_advanced(g, processed.metadata, processed.chunks),
          weaviate |-> _create_embeddings_advanced(index, processed.metadata,
                                                   processed.chunks),
          raised |-> FALSE]

\* The dict `results` of process_batch as it is created.  `raised` tells
\* whether an exception has left the batch; `visited`, `stored` and `failures`
\* are history: the paths given to process_document, the paths given to
\* ingest_document_advanced and the paths whose processing or storage failed
NoResults ==
    [processed |-> 0, failed |-> 0, total_chunks |-> 0, documents |-> <<>>,
     errors |-> <<>>, raised |-> FALSE, visited |-> <<>>, stored |-> <<>>,
     failures |-> <<>>]

\* A loop body that lets the exception of process_document through
ProcessFileUncaught(results, file_path, processed) ==
    IF processed.raised
    THEN [results EXCEPT !.raised = TRUE,
                         !.visited = Append(@, file_path),
                         !.failures = Append(@, file_path)]
    ELSE [results EXCEPT !.processed = @ + 1,
                         !.total_chunks = @ + Len(processed.chunks),
                         !.documents = Append(@, [file_path |-> file_path,
                                                  chunk_count |-> Len(processed.chunks)]),
                         !.visited = Append(@, file_path)]

\* The body of the loop of process_batch for one file
ProcessFile(results, file_path, processed) ==
    IF processed.raised
    THEN [results EXCEPT !.failed = @ + 1,
                         !.errors = Append(@, [file_path |-> file_path, error |-> "error"]),
                         !.visited = Append(@, file_path),
                         !.failures = Append(@, file_path)]
    ELSE [results EXCEPT !.processed = @ + 1,
                         !.total_chunks = @ + Len(processed.chunks),
                         !.documents = Append(@, [file_path |-> file_path,
                                                  chunk_count |-> Len(processed.chunks)]),
                         !.visited = Append(@, file_path)]

\* The sample file at the path
FileAt(file_path) == CHOOSE file \in SampleFiles : file.file_path = file_path

RECURSIVE process_batch(_, _)
\* process_batch, from the results so far: an exception that leaves the loop
\* body ends the loop
process_batch(results, file_paths) ==
    IF Len(file_paths) = 0 \/ results.raised THEN results
    ELSE process_batch(ProcessFile(results, Head(file_paths),
                                   ProcessedFiles[FileAt(Head(file_paths))]),
                       Tail(file_paths))

\* The body of the loop of ingest_batch for one document, given the outcome
\* of ingest_document_advanced
StoreDocument(state, file_path, outcome) ==
    [neo4j |-> outcome.neo4j, weaviate |-> outcome.weaviate,
     results |->
        IF outcome.raised
        THEN [state.results EXCEPT !.failed = @ + 1, !.processed = @ - 1,
                                   !.stored = Append(@, file_path),
                                   !.failures = Append(@, file_path)]
        ELSE [state.results EXCEPT !.stored = Append(@, file_path)]]

RECURSIVE StoreDocuments(_, _, _, _)
\* The loop of ingest_batch over batch_results["documents"]; faults[k] is
\* what fails while the k-th of them is stored
StoreDocuments(state, s, documents, faults) ==
    IF Len(documents) = 0 \/ state.results.raised THEN state
    ELSE StoreDocuments(
             StoreDocument(state, Head(documents).file_path,
                           ingest_document_advanced(
                               s, state.neo4j, state.weaviate,
                               ProcessedFiles[FileAt(Head(documents).file_path)],
                               Head(faults))),
             s, Tail(documents), Tail(faults))

\* GraphRAGSystem.ingest_batch: the stores after the call and the results it
\* returns
ingest_batch(s, g, index, file_paths, faults) ==
    LET Store(batch_results) ==
            StoreDocuments([neo4j |-> g, weaviate |-> index, results |-> batch_results],
                           s, batch_results.documents, faults)
    IN  Store(process_batch(NoResults, file_paths))

\* The body of the loop of ingest_directory for one file of the directory:
\* a file of another suffix is passed over; a failure of the graph database
\* makes ingest_document raise, a failure of the vector index is caught
\* chunk by chunk inside _create_embeddings_basic
IngestFile(state, s, file, fault) ==
    LET Counted(outcome) ==
            [neo4j |-> outcome.neo4j, weaviate |-> outcome.weaviate,
             files_processed |->
                state.files_processed + (IF outcome.raised THEN 0 ELSE 1),
             visited |-> Append(state.visited, file.file_path)]
        Ingested(outcome) ==
            IF fault = "graph" \/ outcome.raised
            THEN [neo4j |-> state.neo4j, weaviate |-> state.weaviate, raised |-> TRUE]
            ELSE IF fault = "vector"
            THEN [neo4j |-> outcome.neo4j, weaviate |-> state.weaviate, raised |-> FALSE]
            ELSE [neo4j |-> outcome.neo4j, weaviate |-> outcome.weaviate,
                  raised |-> FALSE]
    IN  IF Lower(PathSuffix(file.file_path)) \notin {".txt", ".pdf", ".md"} THEN state
        ELSE Counted(Ingested(ingest_document(s, state.neo4j, state.weaviate,
                                              file.file_path, file.content)))

RECURSIVE ingest_directory(_, _, _, _)
\* The loop of ingest_directory over the files path.glob("*") yields
ingest_directory(state, s, files, faults) ==
    IF Len(files) = 0 THEN state
    ELSE ingest_directory(IngestFile(state, s, Head(files), Head(faults)),
                          s, Tail(files), Tail(faults))

\* The calls: a batch of paths, or the files of a directory in the order
\* the file system lists them, together with what fails on the way
BatchCalls ==
    {[op |-> "ingest_batch", file_paths |-> file_paths, faults |-> faults] :
        <<file_paths, faults>> \in
            UNION {[1..n -> {file.file_path : file \in SampleFiles}] \X [1..n -> Faults] :
                      n \in 0..MaxBatch}}
    \cup
    {[op |-> "ingest_directory", file_paths |-> file_paths, faults |-> faults] :
        <<file_paths, faults>> \in
            UNION {{listing \in [1..n -> {file.file_path :
                                             file \in {f \in SampleFiles : f.exists}}] :
                        \A i, j \in 1..n : listing[i] = listing[j] => i = j}
                    \X [1..n -> Faults] : n \in 0..MaxBatch}}

\* A system before or after initialize, with empty stores, about to be
\* called
BatchInit ==
    /\ sys \in {InitialSys} \cup InitializeOutcomes(InitialSys)
    /\ neo4j = EmptyGraph
    /\ weaviate = EmptyBag
    /\ response = NoResponse
    /\ last = NoOperation
    /\ built = {}
    /\ pc = "call"
    /\ arg \in BatchCalls
    /\ ret = <<>>

\* A call of ingest_batch (tenant_id and chunk_strategy have their defaults)
IngestBatch ==
    /\ pc = "call"
    /\ arg.op = "ingest_batch"
    /\ pc' = "returned"
    /\ LET Return(state) ==
               /\ neo4j' = state.neo4j
               /\ weaviate' = state.weaviate
               /\ response' = [op |-> "ingest_batch", results |-> state.results]
       IN  Return(ingest_batch(sys, neo4j, weaviate, arg.file_paths, arg.faults))
    /\ UNCHANGED <<sys, last, built, arg, ret>>

\* A call of ingest_directory for a directory that exists: a system that is
\* not initialized is initialized first, and a failure of initialize leaves
\* the call before the first file
IngestDirectory ==
    /\ pc = "call"
    /\ arg.op = "ingest_directory"
    /\ pc' = "returned"
    /\ \E s \in InitializeOutcomes(sys) :
          /\ sys' = s
          /\ LET Return(state) ==
                     /\ neo4j' = state.neo4j
                     /\ weaviate' = state.weaviate
                     /\ response' = [op |-> "ingest_directory",
                                     raised |-> ~s.initialized,
                                     files_processed |-> state.files_processed,
                                     visited |-> state.visited]
                 start == [neo4j |-> neo4j, weaviate |-> weaviate,
                           files_processed |-> 0, visited |-> <<>>]
             IN  IF s.initialized
                 THEN Return(ingest_directory(
                                 start, s,
                                 [k \in 1..Len(arg.file_paths) |-> FileAt(arg.file_paths[k])],
                                 arg.faults))
                 ELSE Return(start)
    /\ UNCHANGED <<last, built, arg, ret>>

SpecBatch == BatchInit /\ [][IngestBatch \/ IngestDirectory]_vars

\* C12: a failure while one file of a batch (or of a directory) is processed
\* or stored never ends the call: ingest_batch returns without raising,
\* having given every file of the batch to process_document and every file
\* that process_document accepted to ingest_document_advanced, whatever
\* failed for the files before it; ingest_directory, once the system is
\* initialized, returns without raising, having visited every file.
C12_BatchSiblingIndependence ==
    /\ (pc = "returned" /\ arg.op = "ingest_batch") =>
          /\ ~response.results.raised
          /\ response.results.visited = arg.file_paths
          /\ response.results.stored =
                SelectSeq(arg.file_paths, LAMBDA file_path : FileAt(file_path).exists)
    /\ (pc = "returned" /\ arg.op = "ingest_directory" /\ sys.initialized) =>
          /\ ~response.raised
          /\ response.visited = arg.file_paths

\* C12 witness: the first file of a batch of two fails while it is stored
\* and the second file is stored after it
C12_Witness ==
    /\ pc = "returned"
    /\ arg.op = "ingest_batch"
    /\ Len(arg.file_paths) = 2
    /\ response.results.failures = <<arg.file_paths[1]>>
    /\ response.results.stored = arg.file_paths
    /\ response.results.errors = <<>>
    /\ BagCardinality(weaviate) = 1

\* C13: when ingest_batch returns, processed + failed is the number of input
\* files and the list of errors has exactly one entry for each file counted
\* in failed, whether it failed while it was processed or while it was
\* stored.
C13_BatchAccounting ==
    (pc = "returned" /\ arg.op = "ingest_batch") =>
        /\ response.results.processed + response.results.failed = Len(arg.file_paths)
        /\ Len(response.results.errors) = response.results.failed
        /\ \A file_path \in Range(arg.file_paths) :
              Cardinality({k \in 1..Len(response.results.errors) :
                              response.results.errors[k].file_path = file_path})
                  = Cardinality({k \in 1..Len(response.results.failures) :
                                    response.results.failures[k] = file_path})

(***************************************************************************)
(* Startup: startup_event and GraphRAGSystem.initialize, one step for      *)
(* every attempt initialize makes at a service, and the health endpoint.   *)
(* pc is the position of the running initialize, arg its local variables   *)
(* and ret how the last initialize ended.                                  *)
(***************************************************************************)
max_retries == 5

Services == {"nlp", "neo4j", "weaviate", "embeddings"}

\* The local variables of a call of initialize: who called it, the loop
\* variable of the running retry loop, and (history) the attempts made at
\* every service and the seconds slept after them
InitializeLocals(caller) ==
    [caller |-> caller, attempt |-> 0,
     tried |-> [service \in Services |-> 0],
     slept |-> [service \in Services |-> <<>>]]

NotRaised == [raised |-> FALSE, service |-> "None"]

\* A retry loop whose sleep is not guarded by the number of the attempt
AttemptFailedSleeping(locals, service) ==
    [raised |-> locals.attempt >= max_retries - 1,
     locals |-> [locals EXCEPT !.tried[service] = @ + 1,
                               !.slept[service] = Append(@, 2 ^ locals.attempt),
                               !.attempt = @ + 1]]

\* The except branch of the retry loops of _init_neo4j and _init_weaviate:
\* sleep 2 ** attempt and go round again, or raise after the last attempt
AttemptFailed(locals, service) ==
    IF locals.attempt < max_retries - 1
    THEN [raised |-> FALSE,
          locals |-> [locals EXCEPT !.tried[service] = @ + 1,
                                    !.slept[service] = Append(@, 2 ^ locals.attempt),
                                    !.attempt = @ + 1]]
    ELSE [raised |-> TRUE,
          locals |-> [locals EXCEPT !.tried[service] = @ + 1]]

\* A service answered, or was loaded: the method returns
AttemptSucceeded(locals, service) ==
    [locals EXCEPT !.tried[service] = @ + 1, !.attempt = 0]

\* GraphRAGSystem.get_stats: the counts of the stores; a failure of the
\* graph session is caught and gives the status "error", a failure of the
\* aggregate query gives the count "unknown" (here -1)
get_stats(s, g, index, fault) ==
    IF s.neo4j_driver /\ fault = "graph"
    THEN [status |-> "error", keys |-> {"status", "message"},
          documents |-> 0, chunks |-> 0, entities |-> 0, vector_embeddings |-> 0]
    ELSE [status |-> "healthy",
          keys |-> {"status"}
                   \cup (IF s.neo4j_driver THEN {"documents", "chunks", "entities"} ELSE {})
                   \cup (IF s.weaviate_client THEN {"vector_embeddings"} ELSE {}),
          documents |-> IF s.neo4j_driver THEN BagCardinality(g.documents) ELSE 0,
          chunks |-> IF s.neo4j_driver THEN BagCardinality(g.chunks) ELSE 0,
          entities |-> IF s.neo4j_driver THEN BagCardinality(g.entities) ELSE 0,
          vector_embeddings |-> IF ~s.weaviate_client THEN 0
                                ELSE IF fault = "vector" THEN -1
                                ELSE BagCardinality(index)]

\* GET /health: get_stats catches what fails, so the answer is always the
\* first return
health_check(s, g, index, fault) ==
    [op |-> "health_check", status |-> "healthy",
     stats |-> get_stats(s, g, index, fault)]

\* The application before its startup event
StartupInit ==
    /\ SystemIdle
    /\ pc = "startup_event"
    /\ arg = InitializeLocals("startup_event")
    /\ ret = NotRaised

\* startup_event up to its call of initialize, and the first lines of
\* initialize
StartupEvent ==
    /\ pc = "startup_event"
    /\ ~sys.initialized
    /\ pc' = "_init_nlp"
    /\ arg' = InitializeLocals("startup_event")
    /\ ret' = NotRaised
    /\ UNCHANGED <<sys, neo4j, weaviate, response, last, built>>

\* A request (query, ingest_directory) that finds the system not
\* initialized calls initialize
Reinitialize ==
    /\ pc = "serving"
    /\ ~sys.initialized
    /\ pc' = "_init_nlp"
    /\ arg' = InitializeLocals("request")
    /\ ret' = NotRaised
    /\ UNCHANGED <<sys, neo4j, weaviate, response, last, built>>

\* initialize raises: startup_event logs the error, a request answers with
\* it; the application serves
InitializeRaised(locals, service) ==
    /\ pc' = "serving"
    /\ arg' = locals
    /\ ret' = [raised |-> TRUE, service |-> service]

\* _init_nlp: the spaCy model, or a blank pipeline when it is not installed
InitNlp ==
    /\ pc = "_init_nlp"
    /\ \E model \in {"en_core_web_sm", "blank"} : sys' = [sys EXCEPT !.nlp = model]
    /\ pc' = "_init_neo4j"
    /\ arg' = AttemptSucceeded(arg, "nlp")
    /\ UNCHANGED <<neo4j, weaviate, response, last, built, ret>>

\* One round of the loop of _init_neo4j: the driver is assigned before the
\* connection is tested
ConnectNeo4j ==
    /\ pc = "_init_neo4j"
    /\ \/ /\ sys' = [sys EXCEPT !.neo4j_driver = TRUE, !.graph_builder = TRUE]
          /\ pc' = "_init_weaviate"
          /\ arg' = AttemptSucceeded(arg, "neo4j")
          /\ ret' = ret
       \/ /\ sys' = [sys EXCEPT !.neo4j_driver = TRUE]
          /\ LET Failed(failed) ==
                     IF failed.raised THEN InitializeRaised(failed.locals, "neo4j")
                     ELSE pc' = pc /\ arg' = failed.locals /\ ret' = ret
             IN  Failed(AttemptFailed(arg, "neo4j"))
    /\ UNCHANGED <<neo4j, weaviate, response, last, built>>

\* One round of the loop of _init_weaviate: weaviate.Client raises, or the
\* schema calls raise once the client is assigned, or the method returns
ConnectWeaviate ==
    /\ pc = "_init_weaviate"
    /\ \/ /\ sys' = [sys EXCEPT !.weaviate_client = TRUE]
          /\ pc' = "_init_embeddings"
          /\ arg' = AttemptSucceeded(arg, "weaviate")
          /\ ret' = ret
       \/ /\ \E assigned \in BOOLEAN :
                 sys' = [sys EXCEPT !.weaviate_client = @ \/ assigned]
          /\ LET Failed(failed) ==
                     IF failed.raised THEN InitializeRaised(failed.locals, "weaviate")
                     ELSE pc' = pc /\ arg' = failed.locals /\ ret' = ret
             IN  Failed(AttemptFailed(arg, "weaviate"))
    /\ UNCHANGED <<neo4j, weaviate, response, last, built>>

\* _init_embeddings and the last lines of initialize: the model is loaded
\* and the system is initialized, or the load raises.  startup_event goes on
\* to the sample documents
InitEmbeddings ==
    /\ pc = "_init_embeddings"
    /\ \/ /\ sys' = [sys EXCEPT !.embeddings_model = TRUE, !.initialized = TRUE]
          /\ pc' = IF arg.caller = "startup_event" THEN "ingest_directory" ELSE "serving"
          /\ arg' = AttemptSucceeded(arg, "embeddings")
          /\ ret' = ret
       \/ /\ sys' = sys
          /\ InitializeRaised([arg EXCEPT !.tried["embeddings"] = @ + 1], "embeddings")
    /\ UNCHANGED <<neo4j, weaviate, response, last, built>>

\* The end of startup_event: the files of /app/sample_docs, if the
\* directory exists, are ingested
IngestSamples ==
    /\ pc = "ingest_directory"
    /\ pc' = "serving"
    /\ \/ UNCHANGED <<neo4j, weaviate>>
       \/ \E call \in {c \in BatchCalls : c.op = "ingest_directory"} :
             LET Return(state) ==
                     /\ neo4j' = state.neo4j
                     /\ weaviate' = state.weaviate
             IN  Return(ingest_directory(
                            [neo4j |-> neo4j, weaviate |-> weaviate,
                             files_processed |-> 0, visited |-> <<>>],
                            sys,
                            [k \in 1..Len(call.file_paths) |-> FileAt(call.file_paths[k])],
                            call.faults))
    /\ UNCHANGED <<sys, response, last, built, arg, ret>>

\* GET /health, once the application serves
HealthCheck ==
    /\ pc \notin {"startup_event", "ingest_directory"}
    /\ pc = "serving" \/ arg.caller = "request"
    /\ \E fault \in Faults : response' = health_check(sys, neo4j, weaviate, fault)
    /\ UNCHANGED <<sys, neo4j, weaviate, last, built, pc, arg, ret>>

\* The steps of a running initialize
InitializeStep ==
    InitNlp \/ ConnectNeo4j \/ ConnectWeaviate \/ InitEmbeddings

StartupNext ==
    StartupEvent \/ Reinitialize \/ InitializeStep \/ IngestSamples \/ HealthCheck

SpecStartup == StartupInit /\ [][StartupNext]_vars

\* C14: when the graph store or the vector store still fails after the last
\* retry, initialize raises and `initialized` stays false, and as long as the
\* system is not initialized the health endpoint does not answer with the
\* status "healthy".
C14_FatalConnectionFailure ==
    /\ (ret.raised /\ ret.service \in {"neo4j", "weaviate"} /\ pc = "serving")
           => ~sys.initialized
    /\ (/\ ret.raised /\ ret.service \in {"neo4j", "weaviate"}
        /\ ~sys.initialized
        /\ response.op = "health_check")
           => response.status # "healthy"

\* The event loop resumes a running initialize after every sleep and every
\* answer or timeout of a service
FairStartup == SpecStartup /\ WF_vars(InitializeStep)

\* The seconds slept after the first n failed attempts of a retry loop
Backoff(n) == [k \in 1..n |-> 2 ^ (k - 1)]

TenantUsers ==
    Users \cup {[role |-> "user", tenant_id |-> "globex"]}

UploadTenants == {user.tenant_id : user \in TenantUsers}

\* The Document nodes graphrag.ingest_document writes for the file
UploadedDocuments(g, plan, file_path) ==
    DocumentRefs(g, [hash |-> plan.document_hash])
        \cup DocumentRefs(g, [name |-> PathName(file_path)])

\* The history after an upload for the tenant
UploadsAfter(uploads, documents, tenant_id) ==
    {u \in uploads : u.document \notin documents}
        \cup {[document |-> d, tenant_id |-> tenant_id] : d \in documents}

\* The rows of MATCH (d:Document) [WHERE d.tenant_id = $tenant_id] RETURN ...
\* ORDER BY d.name LIMIT $limit, as the nodes they are read from: a node
\* without the property does not pass the filter.  The stores of the model
\* hold fewer documents than the limit
DocumentRows(g, current_user) ==
    {d \in BagToSet(g.documents) :
        \/ current_user.role = "admin"
        \/ "tenant_id" \in DOMAIN d /\ d.tenant_id = current_user.tenant_id}

\* GET /documents for a request that passes the tenant check
list_documents(s, g, tenant_id, limit, current_user) ==
    IF ~s.neo4j_driver
    THEN [op |-> "list_documents", status |-> "error", documents |-> {},
          count |-> 0, tenant_id |-> tenant_id, current_user |-> current_user]
    ELSE [op |-> "list_documents", status |-> "success",
          documents |-> DocumentRows(g, current_user),
          count |-> Min(limit, SumCopies(g.documents, DocumentRows(g, current_user))),
          tenant_id |-> tenant_id, current_user |-> current_user]

\* A system after initialize, with empty stores
TenantInit ==
    /\ sys \in InitializeOutcomes(InitialSys)
    /\ neo4j = EmptyGraph
    /\ weaviate = EmptyBag
    /\ response = NoResponse
    /\ last = NoOperation
    /\ built = {}
    /\ pc = "tenants"
    /\ arg = <<>>
    /\ ret = {}

\* POST /admin/upload with a tenant_id, the file saved under the first
\* temporary name: the answer names the tenant
UploadForTenant ==
    \E file \in UploadedFiles, tenant_id \in UploadTenants, current_user \in TenantUsers :
        /\ UploadAccepted(file, tenant_id, current_user)
        /\ UploadIngested(ingest_document(sys, neo4j, weaviate,
                                          TempPath("tmpa", file.filename), file.content))
        /\ ret' = UploadsAfter(ret,
                               UploadedDocuments(
                                   neo4j',
                                   PlanOf(TempPath("tmpa", file.filename),
                                          file.content).plan,
                                   TempPath("tmpa", file.filename)),
                               tenant_id)
        /\ response' = [op |-> "admin_upload_document", status |-> "success",
                        documents |-> {}, count |-> 0, tenant_id |-> tenant_id,
                        current_user |-> [role |-> "none", tenant_id |-> "none"]]
        /\ UNCHANGED <<sys, pc, arg>>

\* GET /documents (limit has its default) by a caller who passes the tenant
\* check; the others are answered 403
ListDocuments ==
    \E tenant_id \in UploadTenants, current_user \in TenantUsers :
        /\ current_user.role = "admin" \/ tenant_id = current_user.tenant_id
        /\ response' = list_documents(sys, neo4j, tenant_id, 20, current_user)
        /\ UNCHANGED <<sys, neo4j, weaviate, last, built, pc, arg, ret>>

SpecTenants == TenantInit /\ [][UploadForTenant \/ ListDocuments]_vars

\* C16: a document uploaded with tenant_id = T is stored with the Document
\* tenant attribute T, a listing by a non-administrator of tenant T includes
\* it, and a listing by a non-administrator of another tenant does not.
C16_TenantScoping ==
    /\ \A u \in ret :
           \A d \in BagToSet(neo4j.documents) :
               Has(d, u.document) => Has(d, [tenant_id |-> u.tenant_id])
    /\ (/\ response.op = "list_documents"
        /\ response.status = "success"
        /\ response.current_user.role # "admin")
           => \A u \in ret :
                  (u.tenant_id = response.current_user.tenant_id)
                      <=> (\E d \in response.documents : Has(d, u.document))

(***************************************************************************)
(* Failures inside build_enhanced_graph: the NER call of a chunk, the      *)
(* upsert of an entity and the upsert of a relationship may raise.  A call *)
(* is applied to a graph an earlier call has left; ret is what the call    *)
(* returned, with the locals of its steps (history).                       *)
(***************************************************************************)
MaxUpserts == 3

\* The mentions of one chunk, as ChunkMentions, from the answer of the model
MentionsOf(ents, i) ==
    [k \in 1..Len(SelectSeq(ents, LAMBDA e : e.label_ \in Range(EntityLabels))) |->
        EntityMention(
            Strip(SelectSeq(ents, LAMBDA e : e.label_ \in Range(EntityLabels))[k].text),
            SelectSeq(ents, LAMBDA e : e.label_ \in Range(EntityLabels))[k].label_,
            LocalChunkId(i))]

RECURSIVE ExtractFromBreaking(_, _, _, _)
\* A chunk loop that a failing NER call ends
ExtractFromBreaking(chunks, failing, i, all_entities) ==
    IF i >= Len(chunks) \/ i \in failing THEN all_entities
    ELSE ExtractFromBreaking(
             chunks, failing, i + 1,
             all_entities \o MentionsOf(Nlp(Slice(chunks[i + 1].content, 0, 2000)), i))

RECURSIVE ExtractFrom(_, _, _, _)
\* The chunk loop of _extract_all_entities from the chunk of index i, where
\* self.nlp raises for the chunks of `failing`: the except branch logs and
\* the loop goes on
ExtractFrom(chunks, failing, i, all_entities) ==
    IF i >= Len(chunks) THEN all_entities
    ELSE ExtractFrom(
             chunks, failing, i + 1,
             IF i \in failing THEN all_entities
             ELSE all_entities
                      \o MentionsOf(Nlp(Slice(chunks[i + 1].content, 0, 2000)), i))

\* if not canonical_name or canonical_name == "Unknown": continue
InvalidName(entity) ==
    entity.canonical_name = "" \/ entity.canonical_name = "Unknown"

RECURSIVE StoreEntitiesAborting(_, _, _, _, _)
\* An entity loop without the try of its body: the first failing upsert
\* ends _store_enhanced_graph
StoreEntitiesAborting(state, document_hash, entities, failing, k) ==
    IF k > Len(entities) \/ state.raised THEN state
    ELSE StoreEntitiesAborting(
             IF InvalidName(entities[k]) THEN state
             ELSE IF k \in failing THEN [state EXCEPT !.raised = TRUE]
             ELSE [state EXCEPT
                     !.graph = StoreEntity(@, document_hash, entities[k]),
                     !.entity_count = @ + 1],
             document_hash, entities, failing, k + 1)

RECURSIVE StoreEntitiesFrom(_, _, _, _, _)
\* The entity loop of _store_enhanced_graph from entity k of the dict, where
\* the MERGE of the entities of `failing` raises: the except branch logs and
\* continues
StoreEntitiesFrom(state, document_hash, entities, failing, k) ==
    IF k > Len(entities) THEN state
    ELSE StoreEntitiesFrom(
             IF InvalidName(entities[k]) \/ k \in failing THEN state
             ELSE [state EXCEPT
                     !.graph = StoreEntity(@, document_hash, entities[k]),
                     !.entity_count = @ + 1],
             document_hash, entities, failing, k + 1)

RECURSIVE StoreRelationshipsFrom(_, _, _, _)
\* The relationship loop of _store_enhanced_graph from relationship k, where
\* the statement of the relationships of `failing` raises: the except branch
\* logs and the loop goes on
StoreRelationshipsFrom(state, relationships, failing, k) ==
    IF k > Len(relationships) \/ state.raised THEN state
    ELSE StoreRelationshipsFrom(
             IF k \in failing THEN state
             ELSE [state EXCEPT
                     !.graph = MergeRelated(@, relationships[k].source_entity,
                                            relationships[k].target_entity,
                                            relationships[k].relation_type,
                                            Slice(relationships[k].context, 0, 500),
                                            relationships[k].confidence),
                     !.relationship_count = @ + 1],
             relationships, failing, k + 1)

\* Steps 4 and 5 of build_enhanced_graph and its return value, or the
\* exception of step 4; faults names the upserts that fail
StoredFrom(g, extraction, document_hash, chunks, metadata, faults) ==
    LET Returned(state) ==
            [graph |-> IF state.raised THEN state.graph
                       ELSE _create_topic_nodes(state.graph, document_hash,
                                                extraction.entities, metadata),
             raised |-> state.raised,
             report |-> IF state.raised
                        THEN [entities |-> 0, relationships |-> 0, chunks |-> 0]
                        ELSE [entities |-> Len(extraction.entities),
                              relationships |-> Len(extraction.relationships),
                              chunks |-> Len(chunks)],
             entity_count |-> state.entity_count,
             relationship_count |-> state.relationship_count,
             entities |-> extraction.entities,
             relationships |-> extraction.relationships]
    IN  Returned(
            StoreRelationshipsFrom(
                StoreEntitiesFrom(
                    [graph |-> StoreChunks(MergeDocument(g, document_hash, metadata.title,
                                                         metadata.file_type,
                                                         metadata.word_count, Len(chunks)),
                                           document_hash, chunks, 0),
                     raised |-> FALSE, entity_count |-> 0, relationship_count |-> 0],
                    document_hash, extraction.entities, faults.entities, 1),
                extraction.relationships, faults.relationships, 1))

\* build_enhanced_graph of a builder with the spaCy model, with the failures
\* of faults
BuildWithFaults(g, document_hash, chunks, metadata, faults) ==
    StoredFrom(g,
               ExtractedFrom(chunks,
                             _normalize_entities(ExtractFrom(chunks, faults.chunks, 0, <<>>))),
               document_hash, chunks, metadata, faults)

\* The documents of the calls
StoreInputs ==
    BuildInputs
        \cup {[document_hash |-> "founder",
               chunks |-> ChunkObjects(<<UnknownChunk, WorksChunk>>),
               metadata |-> [title |-> "Founder", file_type |-> ".txt", word_count |-> 10]]}

\* What fails during a call: the NER call of at most one chunk, the upsert
\* of at most one entity and of at most one relationship
StoreFaults ==
    [chunks : {{}} \cup {{i} : i \in 0..(MaxChunks - 1)},
     entities : {{}} \cup {{k} : k \in 1..MaxUpserts},
     relationships : {{}} \cup {{k} : k \in 1..MaxUpserts}]

NoFaults == [chunks |-> {}, entities |-> {}, relationships |-> {}]

\* The graphs a call finds: the empty one, or the one a call without
\* failures has left
StoredGraphs ==
    {EmptyGraph}
        \cup {BuildWithFaults(EmptyGraph, input.document_hash, input.chunks,
                              input.metadata, NoFaults).graph : input \in StoreInputs}

StoreInit ==
    /\ neo4j \in StoredGraphs
    /\ weaviate = EmptyBag
    /\ response = NoResponse
    /\ last = NoOperation
    /\ built = {}
    /\ \/ /\ pc = "build_enhanced_graph"
          /\ sys = InitializedSys
          /\ arg \in [input : StoreInputs, faults : StoreFaults]
       \/ /\ pc = "_create_knowledge_graph_basic"
          /\ sys = [InitialSys EXCEPT !.nlp = "en_core_web_sm", !.neo4j_driver = TRUE]
          /\ arg \in [input : StoreInputs, faults : {NoFaults}]
    /\ ret = <<>>

\* A call of build_enhanced_graph
StoreCall ==
    /\ pc = "build_enhanced_graph"
    /\ pc' = "returned"
    /\ LET Return(result) ==
               /\ neo4j' = result.graph
               /\ ret' = [result EXCEPT !.graph = "stored"]
       IN  Return(BuildWithFaults(neo4j, arg.input.document_hash, arg.input.chunks,
                                  arg.input.metadata, arg.faults))
    /\ UNCHANGED <<sys, weaviate, response, last, built, arg>>

\* A call of _create_knowledge_graph_basic by a system whose initialize has
\* not reached Neo4j (no graph builder), once the database answers, for the
\* file of the same chunks
BasicCall ==
    /\ pc = "_create_knowledge_graph_basic"
    /\ pc' = "stored"
    /\ LET Stored(chunks) ==
               neo4j' = _create_knowledge_graph_basic(
                            neo4j, sys.nlp,
                            "/tmp/" \o arg.input.document_hash \o ".txt",
                            Join(chunks, " "), chunks)
       IN  Stored([i \in 1..Len(arg.input.chunks) |-> arg.input.chunks[i].content])
    /\ UNCHANGED <<sys, weaviate, response, last, built, arg, ret>>

StoreNext == StoreCall \/ BasicCall

SpecStore == StoreInit /\ [][StoreNext]_vars

\* The upsert of entity k of the call has written its node
EntityWritten(g, entity) ==
    \E x \in BagToSet(g.entities) :
        Has(x, [canonical_name |-> entity.canonical_name, type |-> entity.entity_type,
                normalized_name |-> entity.normalized_name,
                mention_count |-> entity.mention_count])

\* The statement of a relationship has written its edge
RelationshipWritten(g, relationship) ==
    \E r \in BagToSet(g.related) :
        /\ Has(r, [type |-> relationship.relation_type,
                   context |-> Slice(relationship.context, 0, 500),
                   confidence |-> relationship.confidence])
        /\ Has(r.source, [canonical_name |-> relationship.source_entity])
        /\ Has(r.target, [canonical_name |-> relationship.target_entity])

C24_ReportedCountsArePersisted ==
    pc = "returned" =>
        /\ ret.report.entities = ret.entity_count
        /\ ret.report.entities
              = Cardinality({k \in 1..Len(ret.entities) :
                                /\ ~InvalidName(ret.entities[k])
                                /\ EntityWritten(neo4j, ret.entities[k])})
        /\ ret.report.relationships
              = Cardinality({k \in 1..Len(ret.relationships) :
                                RelationshipWritten(neo4j, ret.relationships[k])})

\* C25: no Entity node of the store has an empty or "Unknown" name, whether
\* the node carries it as canonical_name or as name; an entity with such a
\* name is skipped by the call and the other entities of the call are
\* persisted.
C25_NoPlaceholderEntities ==
    /\ \A x \in BagToSet(neo4j.entities) :
          /\ "canonical_name" \in DOMAIN x => x.canonical_name \notin {"", "Unknown"}
          /\ "name" \in DOMAIN x => x.name \notin {"", "Unknown"}
    /\ pc = "returned" =>
          \A k \in 1..Len(ret.entities) :
              (k \notin arg.faults.entities /\ ~InvalidName(ret.entities[k]))
                  => EntityWritten(neo4j, ret.entities[k])

\* The mentions of the chunk of index i among the entities a call has
\* normalized and stored, as (entity, mention) positions
MentionsKept(entities, i) ==
    {pos \in {<<k, n>> \in (1..Len(entities)) \X (1..MaxMentions) :
                 n <= Len(entities[k].mentions)} :
        entities[pos[1]].mentions[pos[2]].chunk_id = LocalChunkId(i)}

\* C26: when the NER call of chunk k fails, the call keeps no mention of
\* chunk k, keeps every mention of every other chunk, before and after k,
\* and goes on to normalization and storage: it returns its counts and the
\* entities of the other chunks are written.
C26_ExtractionFailureIsLocal ==
    pc = "returned" =>
        /\ ~ret.raised
        /\ ret.report.chunks = Len(arg.input.chunks)
        /\ \A i \in 0..(Len(arg.input.chunks) - 1) :
              IF i \in arg.faults.chunks
              THEN MentionsKept(ret.entities, i) = {}
              ELSE LET found == MentionsOf(Nlp(Slice(arg.input.chunks[i + 1].content,
                                                     0, 2000)), i)
                   IN  /\ Cardinality(MentionsKept(ret.entities, i)) = Len(found)
                       /\ \A n \in 1..Len(found) :
                             \E pos \in MentionsKept(ret.entities, i) :
                                 /\ ret.entities[pos[1]].mentions[pos[2]].text = found[n].text
                                 /\ ret.entities[pos[1]].mentions[pos[2]].label = found[n].label
        /\ \A k \in 1..Len(ret.entities) :
              (k \notin arg.faults.entities /\ ~InvalidName(ret.entities[k]))
                  => EntityWritten(neo4j, ret.entities[k])

\* A call of two chunks where the NER call of the first has failed and the
\* entities of the second are stored
C26_Witness ==
    /\ pc = "returned"
    /\ arg.faults.chunks = {0}
    /\ arg.faults.entities = {}
    /\ Len(arg.input.chunks) = 2
    /\ MentionsKept(ret.entities, 1) # {}
    /\ \E k \in 1..Len(ret.entities) : EntityWritten(neo4j, ret.entities[k])

(***************************************************************************)
(* Ingestion of files with little content, by ingest_document and by       *)
(* ingest_document_advanced.                                               *)
(***************************************************************************)
\* The stores a call finds: empty, or with the document of an earlier
\* ingest_document_advanced
ContentStores ==
    LET Stores(result) == [neo4j |-> result.neo4j, weaviate |-> result.weaviate]
    IN  {[neo4j |-> EmptyGraph, weaviate |-> EmptyBag],
         Stores(ingest_document_advanced(InitializedSys, EmptyGraph, EmptyBag,
                                         ProcessedFiles[FileAt("/app/sample_docs/memo.txt")],
                                         "none"))}

ContentInit ==
    /\ sys \in {InitializedSys,
                [InitialSys EXCEPT !.nlp = "en_core_web_sm", !.neo4j_driver = TRUE]}
    /\ \E stores \in ContentStores : neo4j = stores.neo4j /\ weaviate = stores.weaviate
    /\ response = NoResponse
    /\ last = NoOperation
    /\ built = {}
    /\ pc \in {"ingest_document", "ingest_document_advanced"}
    /\ arg \in [file : ContentFiles, tenant_id : {"default", "acme"}]
    /\ ret = <<>>

\* A call of ingest_document for the file
IngestDocumentCall ==
    /\ pc = "ingest_document"
    /\ pc' = "ingested"
    /\ LET Return(result) ==
               /\ neo4j' = result.neo4j
               /\ weaviate' = result.weaviate
               /\ ret' = [raised |-> result.raised]
       IN  Return(ingest_document(sys, neo4j, weaviate, arg.file.file_path,
                                  arg.file.content))
    /\ UNCHANGED <<sys, response, last, built, arg>>

\* A call of ingest_document_advanced for the file
IngestAdvancedCall ==
    /\ pc = "ingest_document_advanced"
    /\ pc' = "ingested"
    /\ LET Return(result) ==
               /\ neo4j' = result.neo4j
               /\ weaviate' = result.weaviate
               /\ ret' = [raised |-> result.raised]
       IN  Return(ingest_document_advanced(sys, neo4j, weaviate,
                                           process_document(arg.file, arg.tenant_id),
                                           "none"))
    /\ UNCHANGED <<sys, response, last, built, arg>>

ContentNext == IngestDocumentCall \/ IngestAdvancedCall

SpecContent == ContentInit /\ [][ContentNext]_vars

\* C27: the ingestion of a file whose extracted text has fewer than 50
\* characters writes nothing, by ingest_document and by
\* ingest_document_advanced: both stores are as before the call.
C27_InsufficientContentRejected ==
    [][Len(Strip(arg.file.content)) < 50 => (neo4j' = neo4j /\ weaviate' = weaviate)]_vars

\* The positions in the generated list of the relationships of the same
\* unordered pair and type as rel
Occurrences(generated, rel) ==
    {n \in 1..Len(generated) :
        /\ generated[n].relation_type = rel.relation_type
        /\ {generated[n].source_entity, generated[n].target_entity}
              = {rel.source_entity, rel.target_entity}}

\* The index of the chunk of id chunk_id
ChunkIndexOf(chunk_id) ==
    CHOOSE i \in 0..(MaxChunks - 1) : LocalChunkId(i) = chunk_id

\* C28: the relationships are generated chunk by chunk in the order of the
\* chunk index, the keyword pass of a chunk before its co-occurrence pass,
\* and of the generated relationships of one unordered pair and type the
\* result retains the first, with its direction, context and chunk id.
C28_FirstOccurrenceWins ==
    pc = "extracted" =>
        /\ \A n, m \in 1..Len(ret.generated) :
              n < m =>
                  /\ ChunkIndexOf(ret.generated[n].chunk_id)
                        <= ChunkIndexOf(ret.generated[m].chunk_id)
                  /\ (/\ ret.generated[n].chunk_id = ret.generated[m].chunk_id
                      /\ ret.generated[n].relation_type = "CO_MENTIONED")
                         => ret.generated[m].relation_type = "CO_MENTIONED"
        /\ \A k \in 1..Len(ret.relationships) :
              \E n \in Occurrences(ret.generated, ret.relationships[k]) :
                  /\ \A m \in Occurrences(ret.generated, ret.relationships[k]) : n <= m
                  /\ ret.relationships[k] = ret.generated[n]

\* A result whose retained relationship has a later occurrence of the other
\* direction and one of another chunk
C28_Witness ==
    /\ pc = "extracted"
    /\ \E k \in 1..Len(ret.relationships) :
          \E n, m \in Occurrences(ret.generated, ret.relationships[k]) :
              /\ ret.generated[n].source_entity = ret.relationships[k].target_entity
              /\ ret.generated[n].source_entity # ret.generated[n].target_entity
              /\ ret.generated[m].chunk_id # ret.relationships[k].chunk_id

(***************************************************************************)
(* Calls that trigger initialize, in flight at once on the event loop.  A  *)
(* call runs until it awaits the database (session.run) or a sleep of a    *)
(* retry loop; there another call may run.  pc[t] is where call t is       *)
(* suspended, arg[t] its caller and the loop variable of its retry loop,   *)
(* ret counts (history) how often each component has been initialized.     *)
(***************************************************************************)
Tasks == {1, 2}

Callers == {"query", "ingest_directory", "initialize"}

\* One more initialization of each of the services
Loaded(counts, services) ==
    [service \in Services |->
        counts[service] + (IF service \in services THEN 1 ELSE 0)]

\* The except branch of a retry loop for the call: it sleeps, or raises after
\* the last attempt
SleepOrRaise(attempt, sleeping) ==
    IF attempt < max_retries - 1 THEN sleeping ELSE "raised"

\* initialize from a round of the loop of _init_weaviate to its next await of
\* a sleep, its exception or its end: the client and the schema calls are
\* synchronous, _init_embeddings awaits nothing
WeaviateRounds(s, attempt, counts) ==
    {[sys |-> [s EXCEPT !.weaviate_client = TRUE, !.embeddings_model = TRUE,
                        !.initialized = TRUE],
      at |-> "done", counts |-> Loaded(counts, {"weaviate", "embeddings"})],
     [sys |-> [s EXCEPT !.weaviate_client = TRUE],
      at |-> "raised", counts |-> Loaded(counts, {"weaviate"})]}
        \cup {[sys |-> [s EXCEPT !.weaviate_client = @ \/ assigned],
               at |-> SleepOrRaise(attempt, "weaviate_sleep"), counts |-> counts] :
                 assigned \in BOOLEAN}

ConcurrentInit ==
    /\ SystemIdle
    /\ pc = [t \in Tasks |-> "called"]
    /\ arg \in [Tasks -> [caller : Callers, attempt : {0}]]
    /\ ret = [service \in Services |-> 0]

\* The call starts: query and ingest_directory test `initialized` and call
\* initialize, which tests it again; then _init_nlp, and _init_neo4j up to
\* its await of session.run
Begin(t) ==
    /\ pc[t] = "called"
    /\ IF sys.initialized
       THEN /\ pc' = [pc EXCEPT ![t] = "done"]
            /\ UNCHANGED <<sys, ret>>
       ELSE /\ sys' = [sys EXCEPT !.nlp = "en_core_web_sm", !.neo4j_driver = TRUE]
            /\ ret' = Loaded(ret, {"nlp"})
            /\ pc' = [pc EXCEPT ![t] = "_init_neo4j"]
    /\ UNCHANGED <<neo4j, weaviate, response, last, built, arg>>

\* session.run returns: the graph builder is created and initialize goes on
\* with _init_weaviate; or it raises, and the call sleeps or gives up
Neo4jAnswers(t) ==
    /\ pc[t] = "_init_neo4j"
    /\ \/ \E round \in WeaviateRounds([sys EXCEPT !.graph_builder = TRUE], 0,
                                       Loaded(ret, {"neo4j"})) :
             /\ sys' = round.sys
             /\ ret' = round.counts
             /\ pc' = [pc EXCEPT ![t] = round.at]
             /\ arg' = [arg EXCEPT ![t].attempt = 0]
       \/ /\ pc' = [pc EXCEPT ![t] = SleepOrRaise(arg[t].attempt, "neo4j_sleep")]
          /\ UNCHANGED <<sys, ret, arg>>
    /\ UNCHANGED <<neo4j, weaviate, response, last, built>>

\* The sleep of _init_neo4j ends: the next round assigns the driver and
\* awaits session.run
Neo4jRetries(t) ==
    /\ pc[t] = "neo4j_sleep"
    /\ sys' = [sys EXCEPT !.neo4j_driver = TRUE]
    /\ pc' = [pc EXCEPT ![t] = "_init_neo4j"]
    /\ arg' = [arg EXCEPT ![t].attempt = @ + 1]
    /\ UNCHANGED <<neo4j, weaviate, response, last, built, ret>>

\* The sleep of _init_weaviate ends: the next round
WeaviateRetries(t) ==
    /\ pc[t] = "weaviate_sleep"
    /\ \E round \in WeaviateRounds(sys, arg[t].attempt + 1, ret) :
          /\ sys' = round.sys
          /\ ret' = round.counts
          /\ pc' = [pc EXCEPT ![t] = round.at]
    /\ arg' = [arg EXCEPT ![t].attempt = @ + 1]
    /\ UNCHANGED <<neo4j, weaviate, response, last, built>>

ConcurrentNext ==
    \E t \in Tasks : Begin(t) \/ Neo4jAnswers(t) \/ Neo4jRetries(t) \/ WeaviateRetries(t)

SpecConcurrent == ConcurrentInit /\ [][ConcurrentNext]_vars

\* C29: with several calls that trigger initialization in flight, no
\* component is initialized more than once, and whenever `initialized` is
\* true the four components and the graph builder are set.
C29_SingleInitialization ==
    /\ \A service \in Services : ret[service] <= 1
    /\ sys.initialized =>
          /\ sys.nlp # "None"
          /\ sys.neo4j_driver
          /\ sys.weaviate_client
          /\ sys.embeddings_model
          /\ sys.graph_builder

(***************************************************************************)
(* Deletion of a document (main.delete_document) from the stores earlier   *)
(* uploads and ingestions have filled, and the queries after it.           *)
(***************************************************************************)
RECURSIVE HtmlEscape(_)
\* html.escape(s), one half of the string after the other
HtmlEscape(s) ==
    IF Len(s) = 0 THEN ""
    ELSE IF Len(s) = 1
    THEN CASE s = "&" -> "&amp;"
           [] s = "<" -> "&lt;"
           [] s = ">" -> "&gt;"
           [] s = "\"" -> "&quot;"
           [] s = "'" -> "&#x27;"
           [] OTHER -> s
    ELSE LET half == Len(s) \div 2
         IN  HtmlEscape(SubSeq(s, 1, half)) \o HtmlEscape(SubSeq(s, half + 1, Len(s)))

\* SecurityValidator.sanitize_string: cut, escape, strip; after the escape no
\* "<" is left for the pattern <script.*?</script> to match.  A digest
\* stands for its 16 hexadecimal characters, which pass unchanged
sanitize_string(input_str, max_length) ==
    IF input_str = "" THEN ""
    ELSE IF StartsWith(input_str, "sha256(") THEN input_str
    ELSE Strip(HtmlEscape(Slice(input_str, 0, max_length)))

\* The bag without the elements of the set
Without(bag, removed) == [x \in DOMAIN bag \ removed |-> bag[x]]

\* The chunks the document CONTAINS
ChunksOf(g, hash) ==
    {e.target : e \in {x \in DOMAIN g.contains :
                          x.source \in DocumentRefs(g, [hash |-> hash])}}

\* MATCH (d:Document {hash}) OPTIONAL MATCH (d)-[:CONTAINS]->(c:Chunk)
\* OPTIONAL MATCH (c)-[:MENTIONS]->(e:Entity) DETACH DELETE d, c: the
\* document, its chunks and every relationship of either
DetachDelete(g, hash) ==
    [g EXCEPT
        !.documents = Without(@, {d \in DOMAIN g.documents : Has(d, [hash |-> hash])}),
        !.chunks = Without(@, {c \in DOMAIN g.chunks :
                                  Ref(c, {"id"}) \in ChunksOf(g, hash)}),
        !.contains = Without(@, {e \in DOMAIN g.contains :
                                    \/ e.source \in DocumentRefs(g, [hash |-> hash])
                                    \/ e.target \in ChunksOf(g, hash)}),
        !.mentions = Without(@, {e \in DOMAIN g.mentions :
                                    e.source \in ChunksOf(g, hash)}),
        !.has_topic = Without(@, {e \in DOMAIN g.has_topic :
                                     e.source \in DocumentRefs(g, [hash |-> hash])})]

\* RETURN count(c): the rows of the statement that have a chunk, one per
\* chunk and entity it mentions
DeletedChunks(g, hash) ==
    Cardinality({e \in DOMAIN g.mentions : e.source \in ChunksOf(g, hash)})
        + Cardinality({c \in ChunksOf(g, hash) :
                          \A e \in DOMAIN g.mentions : e.source # c})

\* weaviate_client.batch.delete_objects where chunk_id Like
\* f"{document_hash}_*"
DeleteObjects(index, hash) ==
    Without(index, {o \in DOMAIN index : StartsWith(o.chunk_id, hash \o "_")})

\* main.delete_document for a caller the permission check lets through: the
\* stores after the request and its answer; a failure of the vector index is
\* caught and logged
delete_document(s, g, index, requested, current_user, vector_fails) ==
    LET document_hash == sanitize_string(requested, 50)
        found == {d \in DOMAIN g.documents : Has(d, [hash |-> document_hash])}
        Answer(doc_record) ==
            IF /\ current_user.role # "admin"
               /\ "tenant_id" \in DOMAIN doc_record
               /\ doc_record.tenant_id # current_user.tenant_id
            THEN [neo4j |-> g, weaviate |-> index, status_code |-> 403, deleted_chunks |-> 0]
            ELSE [neo4j |-> DetachDelete(g, document_hash),
                  weaviate |-> IF vector_fails \/ ~s.weaviate_client THEN index
                               ELSE DeleteObjects(index, document_hash),
                  status_code |-> 200,
                  deleted_chunks |-> DeletedChunks(g, document_hash)]
    IN  IF ~s.neo4j_driver
        THEN [neo4j |-> g, weaviate |-> index, status_code |-> 500, deleted_chunks |-> 0]
        ELSE IF found = {}
        THEN [neo4j |-> g, weaviate |-> index, status_code |-> 404, deleted_chunks |-> 0]
        ELSE Answer(CHOOSE d \in found : TRUE)

\* The stores the requests find: the uploads of one and of two files, the
\* advanced ingestion of a sample file, and an upload after it
DeleteStores ==
    LET empty == [neo4j |-> EmptyGraph, weaviate |-> EmptyBag]
        reported == Uploaded(InitializedSys, empty, "report.txt", FoundedText \o "\n")
        Stores(result) == [neo4j |-> result.neo4j, weaviate |-> result.weaviate]
        advanced == Stores(ingest_document_advanced(
                               InitializedSys, EmptyGraph, EmptyBag,
                               ProcessedFiles[FileAt("/app/sample_docs/memo.txt")], "none"))
    IN  {reported,
         Uploaded(InitializedSys, reported, "memo.md", WorksText),
         advanced,
         Uploaded(InitializedSys, advanced, "report.txt", FoundedText \o "\n")}

\* The hashes the requests name: those of the stored documents, one of them
\* with spaces around it, and one of no document
RequestedHashes(g) ==
    {d.hash : d \in {x \in DOMAIN g.documents : "hash" \in DOMAIN x}}
        \cup {" <none> "}

DeleteInit ==
    /\ sys = InitializedSys
    /\ \E stored \in DeleteStores : neo4j = stored.neo4j /\ weaviate = stored.weaviate
    /\ response = NoResponse
    /\ last = NoOperation
    /\ built = {}
    /\ pc = "serving"
    /\ arg = ""
    /\ ret = {}

\* DELETE /admin/documents/{document_hash}; ret keeps (history) the hash and
\* the chunks of every document a request has deleted, and whether the
\* vector index failed during the request
DeleteDocument ==
    \E requested \in RequestedHashes(neo4j), current_user \in Users, vector_fails \in BOOLEAN :
        LET Return(result) ==
                /\ neo4j' = result.neo4j
                /\ weaviate' = result.weaviate
                /\ response' = [op |-> "delete_document",
                                status |-> IF result.status_code = 200
                                           THEN "success" ELSE "error",
                                status_code |-> result.status_code,
                                deleted_chunks |-> result.deleted_chunks]
                /\ ret' = IF result.status_code # 200 THEN ret
                          ELSE ret \cup
                                   {[document_hash |-> sanitize_string(requested, 50),
                                     vector_failed |-> vector_fails,
                                     chunk_ids |-> ChunksOf(neo4j, sanitize_string(requested, 50)),
                                     contents |->
                                         {c.content :
                                             c \in {x \in DOMAIN neo4j.chunks :
                                                       Ref(x, {"id"}) \in
                                                           ChunksOf(neo4j,
                                                                    sanitize_string(requested, 50))}}]}
        IN  /\ Return(delete_document(sys, neo4j, weaviate, requested, current_user,
                                      vector_fails))
            /\ UNCHANGED <<sys, last, built, pc, arg>>

DeleteNext == DeleteDocument \/ Query

SpecDelete == DeleteInit /\ [][DeleteNext]_vars

\* The vector records of the chunks of the documents deleted by a request
\* during which the vector index answered
DeletedRecords ==
    {o \in DOMAIN weaviate : \E d \in ret : ~d.vector_failed /\ o.content \in d.contents}

\* C30: after a document is deleted by its hash, the graph store holds no
\* Document of the hash and none of its Chunk nodes; when the vector index
\* has answered the request it holds no record of the chunks of the
\* document, and a later query returns none of them.
C30_DeletionRemovesDocument ==
    /\ \A d \in ret :
          /\ DocumentRefs(neo4j, [hash |-> d.document_hash]) = {}
          /\ \A c \in DOMAIN neo4j.chunks : Ref(c, {"id"}) \notin d.chunk_ids
    /\ DeletedRecords = {}
    /\ (response.op = "query" /\ response.status = "success" /\ response.failed = {})
          => response.vector_matches
                <= SumCopies(weaviate, DOMAIN weaviate \ DeletedRecords)

=============================================================================
